---- MODULE Spec2Model ----
(***************************************************************************)
(* Run lifecycle core of gage (src/gage/_internal/run_util.py, var.py):    *)
(* the timestamp service, the meta writer, the staging pipeline, the       *)
(* file-change log with its fold, the manifest finalizer and the run       *)
(* directory scanner.                                                      *)
(*                                                                         *)
(* Text is modelled as sequences of one-character strings, so that the     *)
(* log line encoder and decoder are computed the way the code computes     *)
(* them.  An optional value is <<>> (Python None) or <<v>>.                *)
(***************************************************************************)
EXTENDS Integers, Sequences, FiniteSets, TLC

\* ------------------------------------------------------------------ bounds

\* Wall-clock readings (microseconds) range over 0..MaxClock.
MaxClock == 2
\* Threads calling run_timestamp are 1..NThreads.
NThreads == 2
\* Total number of run_timestamp calls started in the timestamp specification.
MaxCalls == 3
\* File modification times (microseconds) range over 0..MaxMtime.
MaxMtime == 1
\* The initialized timestamp of the run that is staged.
InitializedAt == 1
\* File operations a hook's child process performs before it exits.
MaxHookOps == 1

\* Calls of finalize_staged_run on the run.
MaxFinalizes == 2

\* Lines of a log drawn freely for the fold.
MaxFoldLen == 3
\* list_runs calls completed while a run is being initialized.
MaxLists == 2
MaxReadLen == 2
MaxOutput == 3
PipeCapacity == 1

\* ------------------------------------------------------------------ text

None == <<>>
Some(v) == <<v>>

WhitespaceChars == {" ", "\t", "\n", "\r"}
DigitChars == <<"0", "1", "2", "3", "4", "5", "6", "7", "8", "9">>

\* str.rstrip()
RECURSIVE RStrip(_)
RStrip(s) ==
    IF s = <<>> THEN s
    ELSE IF s[Len(s)] \in WhitespaceChars THEN RStrip(SubSeq(s, 1, Len(s) - 1))
    ELSE s

\* str.split(sep, maxsplit): at most maxsplit cuts, from the left; the rest of
\* the text, separators included, is the last part.
RECURSIVE SplitFrom(_, _, _, _)
SplitFrom(s, sep, maxsplit, cur) ==
    IF s = <<>> THEN <<cur>>
    ELSE IF maxsplit > 0 /\ Head(s) = sep
         THEN <<cur>> \o SplitFrom(Tail(s), sep, maxsplit - 1, <<>>)
         ELSE SplitFrom(Tail(s), sep, maxsplit, Append(cur, Head(s)))

Split(s, sep, maxsplit) == SplitFrom(s, sep, maxsplit, <<>>)

\* str(n) for an integer n >= 0
RECURSIVE IntStr(_)
IntStr(n) ==
    IF n < 10 THEN <<DigitChars[n + 1]>>
    ELSE IntStr(n \div 10) \o <<DigitChars[(n % 10) + 1]>>

DigitValue(c) == (CHOOSE i \in 1..10 : DigitChars[i] = c) - 1

IsDigits(s) ==
    /\ s # <<>>
    /\ \A i \in 1..Len(s) : \E j \in 1..10 : DigitChars[j] = s[i]

RECURSIVE DigitsValue(_)
DigitsValue(s) ==
    IF s = <<>> THEN 0
    ELSE 10 * DigitsValue(SubSeq(s, 1, Len(s) - 1)) + DigitValue(s[Len(s)])

\* int(s) on the texts the model writes: None stands for ValueError.
ParseInt(s) == IF IsDigits(s) THEN Some(DigitsValue(s)) ELSE None

\* Code points of the characters the model's texts are made of.
CodePoints ==
    <<[c |-> "\t", code |-> 9], [c |-> "\n", code |-> 10], [c |-> " ", code |-> 32],
      [c |-> "+", code |-> 43], [c |-> "-", code |-> 45], [c |-> ".", code |-> 46],
      [c |-> "0", code |-> 48], [c |-> "1", code |-> 49], [c |-> "2", code |-> 50],
      [c |-> "3", code |-> 51], [c |-> "4", code |-> 52], [c |-> "5", code |-> 53],
      [c |-> "6", code |-> 54], [c |-> "7", code |-> 55], [c |-> "8", code |-> 56],
      [c |-> "9", code |-> 57], [c |-> "=", code |-> 61], [c |-> "A", code |-> 65],
      [c |-> "B", code |-> 66], [c |-> "C", code |-> 67], [c |-> "D", code |-> 68],
      [c |-> "E", code |-> 69], [c |-> "F", code |-> 70], [c |-> "X", code |-> 88],
      [c |-> "_", code |-> 95], [c |-> "a", code |-> 97],
      [c |-> "b", code |-> 98], [c |-> "c", code |-> 99], [c |-> "d", code |-> 100],
      [c |-> "e", code |-> 101], [c |-> "f", code |-> 102], [c |-> "g", code |-> 103],
      [c |-> "h", code |-> 104], [c |-> "i", code |-> 105], [c |-> "j", code |-> 106],
      [c |-> "m", code |-> 109],
      [c |-> "o", code |-> 111], [c |-> "r", code |-> 114], [c |-> "t", code |-> 116],
      [c |-> "v", code |-> 118], [c |-> "x", code |-> 120], [c |-> "y", code |-> 121]>>

\* ord(c)
Ord(c) == CodePoints[CHOOSE i \in 1..Len(CodePoints) : CodePoints[i].c = c].code

\* a < b for two texts: by code point, a proper prefix first
RECURSIVE TextLess(_, _)
TextLess(a, b) ==
    IF b = <<>> THEN FALSE
    ELSE IF a = <<>> THEN TRUE
    ELSE IF Head(a) # Head(b) THEN Ord(Head(a)) < Ord(Head(b))
    ELSE TextLess(Tail(a), Tail(b))

\* "".join(parts)
RECURSIVE Join(_)
Join(parts) == IF parts = <<>> THEN <<>> ELSE Head(parts) \o Join(Tail(parts))

\* f.readlines(): the text cut after each "\n", the terminators kept
RECURSIVE ReadLinesFrom(_, _)
ReadLinesFrom(s, cur) ==
    IF s = <<>> THEN (IF cur = <<>> THEN <<>> ELSE <<cur>>)
    ELSE IF Head(s) = "\n" THEN <<Append(cur, "\n")>> \o ReadLinesFrom(Tail(s), <<>>)
    ELSE ReadLinesFrom(Tail(s), Append(cur, Head(s)))

ReadLines(s) == ReadLinesFrom(s, <<>>)

\* ------------------------------------------------------- display names

\* An integer of up to 32 bits as a sign and two 16-bit halves.
U32(sign, hi, lo) == [sign |-> sign, hi |-> hi, lo |-> lo]

\* str.lstrip() and str.strip()
RECURSIVE LStrip(_)
LStrip(s) ==
    IF s = <<>> THEN s
    ELSE IF Head(s) \in WhitespaceChars THEN LStrip(Tail(s))
    ELSE s

Strip(s) == RStrip(LStrip(s))

HexDigitChars ==
    <<"0", "1", "2", "3", "4", "5", "6", "7", "8", "9", "a", "b", "c", "d", "e", "f">>
UpperHexDigitChars == <<"A", "B", "C", "D", "E", "F">>

IsHexDigit(c) ==
    \/ \E i \in 1..16 : HexDigitChars[i] = c
    \/ \E i \in 1..6 : UpperHexDigitChars[i] = c

HexDigitValue(c) ==
    IF \E i \in 1..16 : HexDigitChars[i] = c
    THEN (CHOOSE i \in 1..16 : HexDigitChars[i] = c) - 1
    ELSE (CHOOSE i \in 1..6 : UpperHexDigitChars[i] = c) + 9

\* The value of at most four hex digits.
RECURSIVE HexValue(_)
HexValue(ds) ==
    IF ds = <<>> THEN 0
    ELSE 16 * HexValue(SubSeq(ds, 1, Len(ds) - 1)) + HexDigitValue(ds[Len(ds)])

\* The digits of an integer literal body: digits with single underscores
\* between them (one may follow a base prefix); None when it is malformed.
DigitsOf(body, prefixed) ==
    LET ok == /\ body # <<>>
              /\ \A i \in 1..Len(body) : IsHexDigit(body[i]) \/ body[i] = "_"
              /\ body[Len(body)] # "_"
              /\ (body[1] = "_" => prefixed)
              /\ \A i \in 1..(Len(body) - 1) : ~(body[i] = "_" /\ body[i + 1] = "_")
              /\ \E i \in 1..Len(body) : IsHexDigit(body[i])
    IN  IF ok THEN Some(SelectSeq(body, IsHexDigit)) ELSE None

\* int(s, 16) for a text of at most 8 characters: surrounding whitespace is
\* dropped, then an optional sign, an optional 0x prefix, and the digits.  None
\* stands for ValueError.
ParseHex(s) ==
    LET t == Strip(s)
        signed == t # <<>> /\ t[1] \in {"+", "-"}
        sign == IF signed /\ t[1] = "-" THEN -1 ELSE 1
        u == IF signed THEN Tail(t) ELSE t
        prefixed == Len(u) >= 2 /\ u[1] = "0" /\ u[2] \in {"x", "X"}
        body == IF prefixed THEN SubSeq(u, 3, Len(u)) ELSE u
        ds == DigitsOf(body, prefixed)
    IN  IF ds = None THEN None
        ELSE LET n == Len(ds[1])
                 hi == HexValue(SubSeq(ds[1], 1, n - 4))
                 lo == HexValue(SubSeq(ds[1], (IF n > 4 THEN n - 3 ELSE 1), n))
             IN  Some(U32((IF hi = 0 /\ lo = 0 THEN 1 ELSE sign), hi, lo))

\* a ^ b for two integers below 2^16
RECURSIVE Xor(_, _)
Xor(a, b) ==
    IF a = 0 THEN b
    ELSE IF b = 0 THEN a
    ELSE (((a % 2) + (b % 2)) % 2) + 2 * Xor(a \div 2, b \div 2)

\* One bit of the CRC-32 register: shifted right, the reflected polynomial
\* 0xEDB88320 applied when the bit shifted out is set.
Crc32Bit(r) ==
    LET hi == r.hi \div 2
        lo == (r.lo \div 2) + (r.hi % 2) * 32768
    IN  IF r.lo % 2 = 1 THEN [hi |-> Xor(hi, 60856), lo |-> Xor(lo, 33568)]
        ELSE [hi |-> hi, lo |-> lo]

\* Eight bits of the register, one after the other.
RECURSIVE Crc32Bits(_, _)
Crc32Bits(r, n) ==
    IF n = 0 THEN r
    ELSE LET next == Crc32Bit(r) IN
         IF next.hi >= 0 THEN Crc32Bits(next, n - 1) ELSE next

\* The register after the bytes, each byte entering at the low end.
RECURSIVE Crc32From(_, _)
Crc32From(bytes, r) ==
    IF bytes = <<>> THEN r
    ELSE LET next == Crc32Bits([hi |-> r.hi, lo |-> Xor(r.lo, Head(bytes))], 8) IN
         IF next.hi >= 0 THEN Crc32From(Tail(bytes), next) ELSE next

\* binascii.crc32(run_id.encode()): the texts here are ASCII
Crc32(s) ==
    LET r == Crc32From([i \in 1..Len(s) |-> Ord(s[i])], [hi |-> 65535, lo |-> 65535])
    IN  U32(1, Xor(r.hi, 65535), Xor(r.lo, 65535))

\* run_util.py:158: `len(run_id) >= 32`
LikelyHexUuid(run_id) == Len(run_id) >= 32

\* run_util.py:157-166
RunIdAsUint(run_id) ==
    IF LikelyHexUuid(run_id) /\ ParseHex(SubSeq(run_id, 1, 8)) # None
    THEN ParseHex(SubSeq(run_id, 1, 8))[1]
    ELSE Crc32(run_id)

\* ------------------------------------------------------- file-change log

\* run_util.py:55
META_SCHEMA == <<"1">>

\* run_util.py:481-482
LoggedFileEvents == {"a", "d", "m"}
LoggedFileTypes == {"s", "d", "r"}

\* Relative paths of files in the run directory: a plain name and a name that
\* ends with a blank.
Paths == {<<"x">>, <<"y", " ">>}

\* run_util.py:547-551
LoggedFile(event, type, modified, path) ==
    [event |-> event, type |-> type, modified |-> modified, path |-> path]

\* run_util.py:599: `file.modified or '-'` (None and 0 are both falsy)
ModifiedText(modified) ==
    IF modified = None \/ modified[1] = 0 THEN <<"-">> ELSE IntStr(modified[1])

\* run_util.py:598-599
EncodeLoggedFile(file) ==
    <<file.event, " ", file.type, " ">> \o ModifiedText(file.modified)
        \o <<" ">> \o file.path \o <<"\n">>

BadLine == [ok |-> FALSE]

\* run_util.py:575-591: BadLine stands for the TypeError
DecodeFilesLogLine(line) ==
    LET parts == Split(line, " ", 3) IN
    IF Len(parts) # 4 THEN BadLine
    ELSE LET event == parts[1]
             type == parts[2]
             modified_str == parts[3]
             path == parts[4]
             parsed == IF modified_str = <<"-">> THEN Some(None)
                       ELSE IF ParseInt(modified_str) = None THEN None
                       ELSE Some(ParseInt(modified_str))
         IN  IF parsed = None THEN BadLine
             ELSE IF ~(Len(event) = 1 /\ event[1] \in {"a", "d", "m"}) THEN BadLine
             ELSE IF ~(Len(type) = 1 /\ type[1] \in {"s", "d", "r"}) THEN BadLine
             ELSE [ok |-> TRUE,
                   file |-> LoggedFile(event[1], type[1], parsed[1], path)]

\* An error message: its text and the values formatted into it.
\* run_util.py:557: an f-string that formats the schema tag into the text
UnsupportedSchemaMessage(schema) ==
    [text |-> "unsupported meta schema: {schema!r}", values |-> <<schema>>]

\* run_util.py:569-571: a plain string literal, not an f-string: the braces
\* stay as they are and neither the file name, the line number nor the line
\* is formatted into the text.
BadEncodingMessage(filename, lineno, line) ==
    [text |-> "bad encoding in \"{filename}\", line {lineno}: {line!r}", values |-> <<>>]

\* run_util.py:564-572: the lines decoded in order, up to the first bad one
RECURSIVE DecodeLines(_, _, _)
DecodeLines(lines, lineno, acc) ==
    IF lines = <<>> THEN [ok |-> TRUE, files |-> acc]
    ELSE LET d == DecodeFilesLogLine(RStrip(Head(lines))) IN
         IF ~d.ok
         THEN [ok |-> FALSE, files |-> acc,
               message |-> BadEncodingMessage(<<"l", "o", "g", "/", "f", "i", "l", "e", "s">>,
                                              lineno, Head(lines))]
         ELSE DecodeLines(Tail(lines), lineno + 1, Append(acc, d.file))

\* A reader that checks no schema tag and passes over what it cannot decode.
IterFilesLogLenient(schema, lines) ==
    [ok |-> TRUE, files |-> DecodeLines(lines, 1, <<>>).files]

\* run_util.py:554-572: schema is the text of the __schema__ file, already
\* stripped; lines is the content of log/files (empty when the file is absent).
IterFilesLog(schema, lines) ==
    IF schema # META_SCHEMA
    THEN [ok |-> FALSE, files |-> <<>>, message |-> UnsupportedSchemaMessage(schema)]
    ELSE DecodeLines(lines, 1, <<>>)

\* A Python dict as the sequence of its items in insertion order.
DictKeys(d) == {d[i].key : i \in 1..Len(d)}
DictGet(d, k) ==
    IF k \in DictKeys(d)
    THEN Some((CHOOSE i \in 1..Len(d) : d[i].key = k))
    ELSE None
DictSet(d, k, v) ==
    IF k \in DictKeys(d)
    THEN [i \in 1..Len(d) |-> IF d[i].key = k THEN [key |-> k, val |-> v] ELSE d[i]]
    ELSE Append(d, [key |-> k, val |-> v])
DictPop(d, k) == SelectSeq(d, LAMBDA e : e.key # k)
DictVal(d, k) == d[DictGet(d, k)[1]].val

\* A fold in which a delete leaves the path in place.
ReduceStepKeepDeleted(paths, file) ==
    IF file.event = "a" THEN DictSet(paths, file.path, file.type) ELSE paths

\* run_util.py:440-443: one event applied to the dict of the fold
ReduceStep(paths, file) ==
    IF file.event = "a" THEN DictSet(paths, file.path, file.type)
    ELSE IF file.event = "d" THEN DictPop(paths, file.path)
    ELSE paths

RECURSIVE ReduceFrom(_, _)
ReduceFrom(files, paths) ==
    IF files = <<>> THEN paths
    ELSE ReduceFrom(Tail(files), ReduceStep(paths, Head(files)))

\* run_util.py:437-445: the (path, type) items yielded, in order
ReduceFilesLog(schema, lines) == ReduceFrom(IterFilesLog(schema, lines).files, <<>>)

RECURSIVE IndexFrom(_, _)
IndexFrom(files, index) ==
    IF files = <<>> THEN index
    ELSE IndexFrom(Tail(files),
                   DictSet(index, Head(files).path, Head(files).modified))

\* run_util.py:543-544: path -> modified of the last event of any kind
InitPreFilesIndex(schema, lines) == IndexFrom(IterFilesLog(schema, lines).files, <<>>)

\* --------------------------------------------------------------- state

VARIABLES
    \* timestamp service
    last_ts,      \* __last_ts: None or the last issued value
    lock_owner,   \* __last_ts_lock: 0 when free, else the thread holding it
    tpc,          \* per thread: position inside run_timestamp
    tts,          \* per thread: the local ts
    calls,        \* run_timestamp calls started so far
    issued,       \* history: values stored, in lock-acquisition order
    returned,     \* history: values returned, in return order
    seen_before,  \* per thread: the returned history when its call began
    \* file-change log
    log,          \* content of log/files: its lines, each ending in "\n"
    fold_out,     \* None or Some(result of the last fold of the log)
    \* runs root and the meta writer
    pc,           \* position of the run's lifecycle (make_run, init_run_meta, ...)
    root,         \* names of the entries of the runs root directory
    metas,        \* meta directory name -> (relative file name -> file)
    subdirs,      \* meta directory name -> set of its subdirectories
    args,         \* arguments of the init_run_meta call
    \* run directory scanner
    lpc,          \* position of list_runs
    lnames,       \* names from os.listdir not yet visited
    lresult,      \* Run records yielded so far
    lstart,       \* history: meta files of the run when the listing began
    lhist,        \* history: completed listings
    \* staging pipeline
    run_files,    \* run directory: relative path -> [mtime, content, readonly]
    manifest,     \* None or Some(entries of the manifest file)
    todo,         \* items of the fold the finalizer has still to visit
    child,        \* the hook's child process
    err,          \* None or Some(the exception stage_run ended with)
    started,      \* history: phases started, in order
    exits,        \* history: hooks that exited, with their exit codes
    prev_scan,    \* history: None or Some(path -> mtime at the last scan)
    manifest_was, \* history: the manifest as each finalize_staged_run call found it
    last_step     \* history: the last step of the pipeline

tsvars == <<last_ts, lock_owner, tpc, tts, calls, issued, returned, seen_before>>
foldvars == <<log, fold_out>>
metavars == <<pc, root, metas, subdirs, args>>
listvars == <<lpc, lnames, lresult, lstart, lhist>>
stagevars ==
    <<run_files, manifest, todo, child, err, started, exits, prev_scan, manifest_was, last_step>>
vars == <<tsvars, foldvars, metavars, listvars, stagevars>>

Threads == 1..NThreads
ClockReadings == 0..MaxClock

\* ----------------------------------------------------- timestamp service

\* The comparison with > in place of >=.
TsNotAfterLastStrict(last, ts) == last # None /\ last[1] > ts

\* run_util.py:176: `__last_ts is not None and __last_ts >= ts`
TsNotAfterLast(last, ts) == last # None /\ last[1] >= ts

\* The clock reading taken as it is.
ChooseTsWallClock(last, ts) == ts

\* run_util.py:176-177: the value chosen under the lock
ChooseTs(last, ts) == IF TsNotAfterLast(last, ts) THEN last[1] + 1 ELSE ts

\* A lock that never excludes.
LockAlwaysFree(t) == TRUE

\* run_util.py:175: `with __last_ts_lock` may be entered
LockFree(t) == lock_owner = 0

\* run_util.py:174: ts = time.time_ns() // 1000, outside the lock
TsReadClock(t) ==
    /\ tpc[t] = "idle"
    /\ calls < MaxCalls
    /\ \E now \in ClockReadings : tts' = [tts EXCEPT ![t] = now]
    /\ tpc' = [tpc EXCEPT ![t] = "read"]
    /\ calls' = calls + 1
    /\ seen_before' = [seen_before EXCEPT ![t] = returned]
    /\ UNCHANGED <<last_ts, lock_owner, issued, returned>>
    /\ UNCHANGED <<foldvars, metavars, listvars, stagevars>>

\* run_util.py:175: acquire __last_ts_lock
TsAcquire(t) ==
    /\ tpc[t] = "read"
    /\ LockFree(t)
    /\ lock_owner' = t
    /\ tpc' = [tpc EXCEPT ![t] = "locked"]
    /\ UNCHANGED <<last_ts, tts, calls, issued, returned, seen_before>>
    /\ UNCHANGED <<foldvars, metavars, listvars, stagevars>>

\* run_util.py:176-177: compare with the last issued value
TsCompare(t) ==
    /\ tpc[t] = "locked"
    /\ tts' = [tts EXCEPT ![t] = ChooseTs(last_ts, tts[t])]
    /\ tpc' = [tpc EXCEPT ![t] = "chosen"]
    /\ UNCHANGED <<last_ts, lock_owner, calls, issued, returned, seen_before>>
    /\ UNCHANGED <<foldvars, metavars, listvars, stagevars>>

\* run_util.py:178: globals()["__last_ts"] = ts, then the lock is released
TsStore(t) ==
    /\ tpc[t] = "chosen"
    /\ last_ts' = Some(tts[t])
    /\ issued' = Append(issued, tts[t])
    /\ lock_owner' = IF lock_owner = t THEN 0 ELSE lock_owner
    /\ tpc' = [tpc EXCEPT ![t] = "stored"]
    /\ UNCHANGED <<tts, calls, returned, seen_before>>
    /\ UNCHANGED <<foldvars, metavars, listvars, stagevars>>

\* run_util.py:179: return ts
TsReturn(t) ==
    /\ tpc[t] = "stored"
    /\ returned' = Append(returned, tts[t])
    /\ tpc' = [tpc EXCEPT ![t] = "idle"]
    /\ UNCHANGED <<last_ts, lock_owner, tts, calls, issued, seen_before>>
    /\ UNCHANGED <<foldvars, metavars, listvars, stagevars>>

\* The timestamp service before any call.
TsFresh ==
    /\ last_ts = None
    /\ lock_owner = 0
    /\ tpc = [t \in Threads |-> "idle"]
    /\ tts = [t \in Threads |-> 0]
    /\ calls = 0
    /\ issued = <<>>
    /\ returned = <<>>
    /\ seen_before = [t \in Threads |-> <<>>]

\* No log, no fold in progress.
FoldFresh ==
    /\ log = <<>>
    /\ fold_out = None

\* An empty runs root; no call in progress.
RootFresh ==
    /\ pc = "make_run"
    /\ root = {}
    /\ metas = <<>>
    /\ subdirs = <<>>
    /\ args = <<>>
    /\ lpc = "idle"
    /\ lnames = {}
    /\ lresult = {}
    /\ lstart = <<>>
    /\ lhist = <<>>

\* An empty run directory; staging not begun.
StageFresh ==
    /\ run_files = <<>>
    /\ manifest = None
    /\ todo = <<>>
    /\ child = [state |-> "none"]
    /\ err = None
    /\ started = <<>>
    /\ exits = <<>>
    /\ prev_scan = None
    /\ manifest_was = <<>>
    /\ last_step = [op |-> "none"]

InitTs == TsFresh /\ FoldFresh /\ RootFresh /\ StageFresh

NextTs ==
    \E t \in Threads :
        \/ TsReadClock(t)
        \/ TsAcquire(t)
        \/ TsCompare(t)
        \/ TsStore(t)
        \/ TsReturn(t)

SpecTs == InitTs /\ [][NextTs]_vars

\* C1: the value a run_timestamp call is about to return is strictly greater
\* than every value returned before that call began, whatever the wall
\* clock read (repeated or backwards readings included).
C1_ReturnedAfterEarlier ==
    \A t \in Threads :
        tpc[t] = "stored" =>
            \A i \in 1..Len(seen_before[t]) : tts[t] > seen_before[t][i]

\* A call that follows an earlier one and returns a value beyond every clock
\* reading: its own reading was not greater than the last issued value.
C1_Witness ==
    \E t \in Threads :
        /\ tpc[t] = "stored"
        /\ seen_before[t] # <<>>
        /\ tts[t] > MaxClock

\* C2: under concurrent callers the values stored under the lock are strictly
\* increasing in lock-acquisition order, so no two calls get the same value.
C2_IssuedStrictlyIncreasing ==
    /\ \A i, j \in 1..Len(issued) : i < j => issued[i] < issued[j]
    /\ \A i, j \in 1..Len(returned) : i # j => returned[i] # returned[j]

\* Two calls in flight at once, both past the lock and not yet returned.
C2_Witness ==
    /\ Len(issued) >= 2
    /\ \E t, u \in Threads : t # u /\ tpc[t] = "stored" /\ tpc[u] = "stored"

\* ------------------------------------------------------------ meta writer

\* unique_run_id (run_util.py:147-148): the id of the one run made here.
RunId ==
    <<"0", "0", "0", "0", "0", "0", "1", "f", "-", "0", "0", "0",
      "0", "-", "4", "0", "0", "0", "-", "8", "0", "0", "0", "-",
      "0", "0", "0", "0", "0", "0", "0", "0", "0", "0", "0", "0">>

MetaSuffix == <<".", "m", "e", "t", "a">>

\* run_util.py:73-74: run.run_dir + ".meta" (names are relative to the root)
RunMetaDir(run_dir) == run_dir \o MetaSuffix

\* Hook names of an operation definition (run_util.py:339, 369, 401).
HookPhases == {"stage-sourcecode", "stage-runtime", "stage-dependencies"}

UserAttrNames == {"label"}
SystemAttrNames == {"platform"}

\* A dict or function with one more key.
Put(f, k, v) == [x \in DOMAIN f \cup {k} |-> IF x = k THEN v ELSE f[x]]

\* file_util.write_file(filename, content, readonly=True)
WrittenFile(content) == [content |-> content, readonly |-> TRUE]

WriteMeta(dir, name, content) ==
    metas' = [metas EXCEPT ![dir] = Put(@, name, WrittenFile(content))]

\* opref_util.encode_opref / decode_opref: None stands for ValueError.
EncodeOpref(opref) == <<"opref:", opref>>
DecodeOpref(text) == IF Len(text) = 2 /\ text[1] = "opref:" THEN Some(text[2]) ELSE None

MetaDir == RunMetaDir(RunId)
MetaFiles == IF MetaDir \in DOMAIN metas THEN DOMAIN metas[MetaDir] ELSE {}

\* run_util.py:139-144: the run directory is made under the root.
MakeRun ==
    /\ pc = "make_run"
    /\ RunId \notin root
    /\ root' = root \cup {RunId}
    /\ pc' = "init_run_meta"
    /\ UNCHANGED <<metas, subdirs, args>>
    /\ UNCHANGED <<tsvars, foldvars, listvars, stagevars>>

\* run_util.py:266-267
EncodeCmdArgs(cmd_args) ==
    Join([i \in 1..Len(cmd_args) |-> cmd_args[i] \o <<"\n">>])

\* (name, val) < (name, val) as Python compares tuples of strings
ItemLess(x, y) == TextLess(x.key, y.key) \/ (x.key = y.key /\ TextLess(x.val, y.val))

\* sorted(env.items())
RECURSIVE SortedItems(_)
SortedItems(items) ==
    IF items = <<>> THEN <<>>
    ELSE LET least == CHOOSE i \in 1..Len(items) :
                         \A j \in 1..Len(items) : ~ItemLess(items[j], items[i])
         IN  <<items[least]>> \o
                SortedItems(SubSeq(items, 1, least - 1) \o SubSeq(items, least + 1, Len(items)))

\* run_util.py:277-278
EncodeCmdEnv(env) ==
    LET sorted == SortedItems(env) IN
    Join([i \in 1..Len(sorted) |-> sorted[i].key \o <<"=">> \o sorted[i].val \o <<"\n">>])

\* run_util.py:124-126
DecodeCmdArgs(text) ==
    LET lines == ReadLines(text) IN [i \in 1..Len(lines) |-> RStrip(lines[i])]

\* dict(pairs): None stands for the ValueError raised for an element that is
\* not a pair.
RECURSIVE DictOf(_, _)
DictOf(pairs, d) ==
    IF pairs = <<>> THEN Some(d)
    ELSE IF Len(Head(pairs)) # 2 THEN None
    ELSE DictOf(Tail(pairs), DictSet(d, Head(pairs)[1], Head(pairs)[2]))

\* run_util.py:129-131
DecodeCmdEnv(text) ==
    LET lines == ReadLines(text) IN
    DictOf([i \in 1..Len(lines) |-> Split(RStrip(lines[i]), "=", 1)], <<>>)

\* Commands given to init_run_meta: `echo hi` with no environment; an
\* environment of two names given in descending order; an argument that ends
\* with a blank; an environment value that ends with a blank.
Cmds ==
    {[args |-> << <<"e", "c", "h", "o">>, <<"h", "i">> >>, env |-> <<>>],
     [args |-> << <<"e", "c", "h", "o">> >>,
      env |-> <<[key |-> <<"B">>, val |-> <<"1">>], [key |-> <<"A">>, val |-> <<"2">>]>>],
     [args |-> << <<"e", "c", "h", "o">>, <<"h", "i", " ">> >>, env |-> <<>>],
     [args |-> << <<"e", "c", "h", "o">> >>,
      env |-> <<[key |-> <<"A">>, val |-> <<"v", " ">>]>>]}

\* Names an operation reference may carry; the operation definition is "op".
OpNames == {"op", "other"}

\* A check that lets every pair of names pass.
NamesMismatchNever(opref, opdef) == FALSE

\* run_util.py:196: `opref.op_name != opdef.name`
NamesMismatch(opref, opdef) == opref.op_name # opdef.name

\* run_util.py:187-199: the call and its name check, which raises ValueError
\* before anything is created.
InitRunMetaCall ==
    /\ pc = "init_run_meta"
    /\ \E op_name \in OpNames,
          hooks \in SUBSET HookPhases,
          cmd \in Cmds,
          user_attrs \in SUBSET UserAttrNames,
          system_attrs \in SUBSET SystemAttrNames :
            args' = [opref |-> [op_name |-> op_name],
                     opdef |-> [name |-> "op", hooks |-> hooks],
                     cmd |-> cmd,
                     user_attrs |-> user_attrs,
                     system_attrs |-> system_attrs]
    /\ IF NamesMismatch(args'.opref, args'.opdef)
       THEN /\ err' = Some([kind |-> "ValueError"])
            /\ pc' = "init_rejected"
       ELSE /\ err' = err
            /\ pc' = "ensure_meta_dir"
    /\ UNCHANGED <<root, metas, subdirs>>
    /\ UNCHANGED <<run_files, manifest, todo, child, started, exits, prev_scan, manifest_was, last_step>>
    /\ UNCHANGED <<tsvars, foldvars, listvars>>

\* run_util.py:200, 218-221
EnsureRunMetaDir ==
    /\ pc = "ensure_meta_dir"
    /\ root' = root \cup {MetaDir}
    /\ metas' = IF MetaDir \in DOMAIN metas THEN metas ELSE Put(metas, MetaDir, <<>>)
    /\ subdirs' = IF MetaDir \in DOMAIN subdirs THEN subdirs ELSE Put(subdirs, MetaDir, {})
    /\ pc' = "write_schema"
    /\ UNCHANGED args
    /\ UNCHANGED <<tsvars, foldvars, listvars, stagevars>>

\* One meta file written, then on to the next step.
WriteStep(at, name, content, next) ==
    /\ pc = at
    /\ WriteMeta(MetaDir, name, content)
    /\ pc' = next
    /\ UNCHANGED <<root, subdirs, args>>
    /\ UNCHANGED <<tsvars, foldvars, listvars, stagevars>>

\* run_util.py:201, 224-226
WriteSchemaFile == WriteStep("write_schema", "__schema__", META_SCHEMA, "ensure_log_dir")

\* run_util.py:202-203, 229-230, 486-495: the log directory, then the runner
\* log is opened (its handler creates log/runner, which is never read-only).
EnsureMetaLogDir ==
    /\ pc = "ensure_log_dir"
    /\ subdirs' = [subdirs EXCEPT ![MetaDir] = @ \cup {"log"}]
    /\ metas' = [metas EXCEPT ![MetaDir] =
                    Put(@, "log/runner", [content |-> "runner", readonly |-> FALSE])]
    /\ pc' = "write_run_id"
    /\ UNCHANGED <<root, args>>
    /\ UNCHANGED <<tsvars, foldvars, listvars, stagevars>>

\* A writer that goes on to the operation definition without writing the id.
WriteRunIdSkipped ==
    /\ pc = "write_run_id"
    /\ pc' = "write_opdef"
    /\ UNCHANGED <<root, metas, subdirs, args>>
    /\ UNCHANGED <<tsvars, foldvars, listvars, stagevars>>

\* run_util.py:204, 233-236
WriteRunId == WriteStep("write_run_id", "id", RunId, "write_opdef")

\* run_util.py:205, 239-242
WriteOpdef == WriteStep("write_opdef", "opdef.json", args.opdef, "write_config")

\* run_util.py:206, 253-256
WriteConfig == WriteStep("write_config", "config.json", "config", "write_cmd_args")

\* run_util.py:207, 259-263
WriteCmdArgs ==
    /\ pc = "write_cmd_args"
    /\ subdirs' = [subdirs EXCEPT ![MetaDir] = @ \cup {"proc"}]
    /\ WriteMeta(MetaDir, "proc/cmd", EncodeCmdArgs(args.cmd.args))
    /\ pc' = "write_cmd_env"
    /\ UNCHANGED <<root, args>>
    /\ UNCHANGED <<tsvars, foldvars, listvars, stagevars>>

\* run_util.py:208, 270-274
WriteCmdEnv ==
    WriteStep("write_cmd_env", "proc/env", EncodeCmdEnv(args.cmd.env), "write_user_attrs")

\* run_util.py:289-295: one file per attribute under the attribute directory
AttrFile(dir, name) == dir \o "/" \o name

GenWriteAttrs(dir, names, files) ==
    [x \in DOMAIN files \cup {AttrFile(dir, n) : n \in names} |->
        IF x \in DOMAIN files THEN files[x] ELSE WrittenFile("attr")]

\* run_util.py:209-210, 281-282
WriteUserAttrs ==
    /\ pc = "write_user_attrs"
    /\ IF args.user_attrs # {}
       THEN /\ subdirs' = [subdirs EXCEPT ![MetaDir] = @ \cup {"user"}]
            /\ metas' = [metas EXCEPT ![MetaDir] = GenWriteAttrs("user", args.user_attrs, @)]
       ELSE UNCHANGED <<subdirs, metas>>
    /\ pc' = "write_system_attrs"
    /\ UNCHANGED <<root, args>>
    /\ UNCHANGED <<tsvars, foldvars, listvars, stagevars>>

\* run_util.py:211-212, 285-286
WriteSystemAttrs ==
    /\ pc = "write_system_attrs"
    /\ IF args.system_attrs # {}
       THEN /\ subdirs' = [subdirs EXCEPT ![MetaDir] = @ \cup {"sys"}]
            /\ metas' = [metas EXCEPT ![MetaDir] = GenWriteAttrs("sys", args.system_attrs, @)]
       ELSE UNCHANGED <<subdirs, metas>>
    /\ pc' = "write_opref"
    /\ UNCHANGED <<root, args>>
    /\ UNCHANGED <<tsvars, foldvars, listvars, stagevars>>

\* run_util.py:213-214, 298-301
WriteOpref == WriteStep("write_opref", "opref", EncodeOpref(args.opref), "write_initialized")

\* run_util.py:215, 304-308: run_timestamp() called by the one thread of the
\* process, then the file is written.
WriteInitializedTimestamp ==
    /\ pc = "write_initialized"
    /\ \E now \in ClockReadings :
          LET timestamp == ChooseTs(last_ts, now) IN
          /\ last_ts' = Some(timestamp)
          /\ WriteMeta(MetaDir, "initialized", timestamp)
    /\ pc' = "initialized"
    /\ UNCHANGED <<root, subdirs, args>>
    /\ UNCHANGED <<lock_owner, tpc, tts, calls, issued, returned, seen_before>>
    /\ UNCHANGED <<foldvars, listvars, stagevars>>

InitRunMeta ==
    \/ InitRunMetaCall
    \/ EnsureRunMetaDir
    \/ WriteSchemaFile
    \/ EnsureMetaLogDir
    \/ WriteRunId
    \/ WriteOpdef
    \/ WriteConfig
    \/ WriteCmdArgs
    \/ WriteCmdEnv
    \/ WriteUserAttrs
    \/ WriteSystemAttrs
    \/ WriteOpref
    \/ WriteInitializedTimestamp

\* ------------------------------------------------- run directory scanner

\* str.endswith
EndsWith(s, suffix) ==
    /\ Len(s) >= Len(suffix)
    /\ SubSeq(s, Len(s) - Len(suffix) + 1, Len(s)) = suffix

\* n characters "0"
Zeros(n) == [i \in 1..n |-> "0"]

\* Names found under a runs root that was not filled by this process: a meta
\* directory of 32 characters that starts with 8 hex digits, one that starts
\* with a minus sign and 7 hex digits, one that starts with a letter that is
\* no hex digit, one of 31 characters, and a name without the meta suffix.
ListNames ==
    {<<"0", "0", "0", "0", "0", "0", "1", "f">> \o Zeros(19) \o MetaSuffix,
     <<"-", "0", "0", "0", "0", "0", "0", "1">> \o Zeros(19) \o MetaSuffix,
     <<"g", "0", "0", "0", "0", "0", "0", "1">> \o Zeros(19) \o MetaSuffix,
     <<"0", "0", "0", "0", "0", "0", "1", "f">> \o Zeros(18) \o MetaSuffix,
     <<"j">>}

\* run_util.py:151-154, var.py:58: the integer run_name_for_id hands to the
\* syllable encoder, for each name a listing can meet.
RunIdAsUintOf == [run_id \in ListNames \cup {MetaDir} |-> RunIdAsUint(run_id)]

\* var.py:56-59: the Run record of a candidate whose opref decoded
ListedRun(name, opref) ==
    [id |-> name,
     opref |-> opref,
     meta_dir |-> name,
     run_dir |-> SubSeq(name, 1, Len(name) - 5),
     name_uint |-> RunIdAsUintOf[name]]

\* var.py:49: os.path.exists(opref_filename), a file or a directory
OprefExists(name) ==
    /\ name \in DOMAIN metas
    /\ \/ "opref" \in DOMAIN metas[name]
       \/ name \in DOMAIN subdirs /\ "opref" \in subdirs[name]

\* var.py:62-64: open() raises OSError on a directory, decode_opref raises
\* ValueError on a text it cannot decode.
LoadOpref(name) ==
    IF "opref" \notin DOMAIN metas[name] THEN [ok |-> FALSE, exc |-> "OSError"]
    ELSE LET opref == DecodeOpref(metas[name]["opref"].content) IN
         IF opref = None THEN [ok |-> FALSE, exc |-> "ValueError"]
         ELSE [ok |-> TRUE, opref |-> opref[1]]

\* A handler for OSError alone.
CaughtOnlyOSError(exc) == exc = "OSError"

\* var.py:53: `except (OSError, ValueError)`
Caught(exc) == exc \in {"OSError", "ValueError"}

\* A visit gated on the initialized-timestamp file instead of the opref file.
IterRunsVisitGatedOnInitialized(name) ==
    IF ~EndsWith(name, MetaSuffix) THEN {}
    ELSE IF ~(name \in DOMAIN metas /\ "initialized" \in DOMAIN metas[name]) THEN {}
    ELSE LET opref == DecodeOpref(metas[name]["opref"].content) IN
         IF opref = None THEN {} ELSE {ListedRun(name, opref[1])}

\* var.py:44-59: what visiting one name yields (a set of zero or one records)
IterRunsVisit(name) ==
    IF ~EndsWith(name, MetaSuffix) THEN {}
    ELSE IF ~OprefExists(name) THEN {}
    ELSE IF ~LoadOpref(name).ok THEN {}
    ELSE {ListedRun(name, LoadOpref(name).opref)}

\* var.py:51-54: the visit lets an exception out of list_runs
IterRunsRaises(name) ==
    /\ EndsWith(name, MetaSuffix)
    /\ OprefExists(name)
    /\ ~LoadOpref(name).ok
    /\ ~Caught(LoadOpref(name).exc)

\* The meta files init_run_meta writes besides the operation reference and the
\* initialized timestamp.
OtherInitFiles ==
    {"__schema__", "id", "opdef.json", "config.json", "proc/cmd", "proc/env"}
        \cup {AttrFile("user", n) : n \in args.user_attrs}
        \cup {AttrFile("sys", n) : n \in args.system_attrs}

\* What a listing is later judged against: which of the run's meta files exist.
MetaSnapshot ==
    [opref |-> "opref" \in MetaFiles,
     others |-> args # <<>> /\ OtherInitFiles \subseteq MetaFiles,
     rejected |-> pc = "init_rejected"]

\* var.py:26, 40-43: names = set(os.listdir(root))
ListDir ==
    /\ lpc = "idle"
    /\ Len(lhist) < MaxLists
    /\ lnames' = root
    /\ lresult' = {}
    /\ lstart' = MetaSnapshot
    /\ lpc' = "iter"
    /\ UNCHANGED lhist
    /\ UNCHANGED <<tsvars, foldvars, metavars, stagevars>>

\* var.py:44-59: one name of the set, in whatever order the set gives
ListVisit ==
    /\ lpc = "iter"
    /\ \E name \in lnames :
          IF IterRunsRaises(name)
          THEN /\ lpc' = "raised"
               /\ UNCHANGED <<lnames, lresult>>
          ELSE /\ lresult' = lresult \cup IterRunsVisit(name)
               /\ lnames' = lnames \ {name}
               /\ UNCHANGED lpc
    /\ UNCHANGED <<lstart, lhist>>
    /\ UNCHANGED <<tsvars, foldvars, metavars, stagevars>>

\* var.py:28-31: the list is returned
ListReturn ==
    /\ lpc = "iter"
    /\ lnames = {}
    /\ lhist' = Append(lhist, [at_start |-> lstart, at_end |-> MetaSnapshot, runs |-> lresult])
    /\ lpc' = "idle"
    /\ UNCHANGED <<lnames, lresult, lstart>>
    /\ UNCHANGED <<tsvars, foldvars, metavars, stagevars>>

ListRuns == ListDir \/ ListVisit \/ ListReturn

InitMeta == TsFresh /\ FoldFresh /\ RootFresh /\ StageFresh

NextMeta == MakeRun \/ InitRunMeta \/ ListRuns

SpecMeta == InitMeta /\ [][NextMeta]_vars

ListedMetaDirs(runs) == {r.meta_dir : r \in runs}

\* C3: a listing that ends while the run has no operation-reference file does
\* not return the run, whatever other meta files are there; a listing that
\* begins once init_run_meta has written the operation-reference file returns it.
C3_DiscoverableByOpref ==
    \A i \in 1..Len(lhist) :
        /\ ~lhist[i].at_end.opref => MetaDir \notin ListedMetaDirs(lhist[i].runs)
        /\ lhist[i].at_start.opref => MetaDir \in ListedMetaDirs(lhist[i].runs)

\* A listing over the run with every meta file written before the operation
\* reference returned nothing, and the listing after the write returned the run.
C3_Witness ==
    /\ Len(lhist) = 2
    /\ lhist[1].at_start.others
    /\ ~lhist[1].at_end.opref
    /\ lhist[1].runs = {}
    /\ lhist[2].at_start.opref
    /\ lhist[2].runs = {ListedRun(MetaDir, args.opref)}

\* C4 as claimed: whenever the operation-reference file exists, every other
\* meta file init_run_meta writes exists, the initialized timestamp included.
C4_OprefWrittenLast ==
    "opref" \in MetaFiles => (OtherInitFiles \cup {"initialized"}) \subseteq MetaFiles

\* The files of the claimed order, one set per step of init_run_meta after the
\* meta directory is made; the log step leaves the opened runner log.
ClaimedWriteOrder ==
    << {"__schema__"}, {"log/runner"}, {"id"}, {"opdef.json"}, {"config.json"},
       {"proc/cmd"}, {"proc/env"},
       {AttrFile("user", n) : n \in args.user_attrs},
       {AttrFile("sys", n) : n \in args.system_attrs},
       {"opref"}, {"initialized"} >>

WrittenUpTo(k) == UNION {ClaimedWriteOrder[i] : i \in 1..k}

MadeRun ==
    [id |-> RunId, run_dir |-> RunId, name_uint |-> RunIdAsUint(RunId)]

\* C29 as claimed: every Run a listing yields for the run's meta directory
\* has the id make_run allocated, which is also the content of the meta id
\* file once written, the run directory make_run made, that directory plus
\* ".meta" as its meta directory, and the display name make_run derived.
C29_ListedIdentityIsAllocated ==
    \A i \in 1..Len(lhist) : \A r \in lhist[i].runs :
        r.meta_dir = MetaDir =>
            /\ r.id = MadeRun.id
            /\ ("id" \in MetaFiles => r.id = metas[MetaDir]["id"].content)
            /\ r.run_dir = MadeRun.run_dir
            /\ r.meta_dir = RunMetaDir(r.run_dir)
            /\ r.name_uint = MadeRun.name_uint

\* ------------------------------------------------- listing of any root

\* What a meta directory found under the root holds for an operation
\* reference: nothing, a file that decodes, a file that does not, a directory.
OprefKinds == {"none", "good", "garbled", "dir"}

\* The root holds any of the names, each a directory of any kind; nothing is
\* being written while it is listed.
InitList ==
    /\ \E kinds \in [ListNames -> OprefKinds \cup {"absent"}] :
          /\ root = {n \in ListNames : kinds[n] # "absent"}
          /\ metas = [n \in root |->
                        IF kinds[n] = "good"
                        THEN [f \in {"opref"} |-> WrittenFile(EncodeOpref([op_name |-> "op"]))]
                        ELSE IF kinds[n] = "garbled"
                        THEN [f \in {"opref"} |-> WrittenFile(<<"garbled">>)]
                        ELSE <<>>]
          /\ subdirs = [n \in root |-> IF kinds[n] = "dir" THEN {"opref"} ELSE {}]
    /\ pc = "none"
    /\ args = <<>>
    /\ lpc = "idle"
    /\ lnames = {}
    /\ lresult = {}
    /\ lstart = <<>>
    /\ lhist = <<>>
    /\ TsFresh
    /\ FoldFresh
    /\ StageFresh

NextList == ListRuns

SpecList == InitList /\ [][NextList]_vars

\* The candidates whose operation-reference file exists and decodes.
ValidCandidates ==
    {n \in root : /\ EndsWith(n, MetaSuffix)
                  /\ n \in DOMAIN metas
                  /\ "opref" \in DOMAIN metas[n]
                  /\ DecodeOpref(metas[n]["opref"].content) # None}

\* C15: whatever the root holds, list_runs lets no exception out, and a
\* completed listing returned exactly the candidates whose operation-reference
\* file exists and decodes, each once: candidates whose file is a directory
\* (unreadable) or does not decode are left out, as are names without the
\* meta suffix.
C15_ListSkipsBadRuns ==
    /\ lpc # "raised"
    /\ \A i \in 1..Len(lhist) :
          /\ ListedMetaDirs(lhist[i].runs) = ValidCandidates
          /\ Cardinality(lhist[i].runs) = Cardinality(ValidCandidates)

\* A listing has returned one run from a root that also holds a candidate
\* whose operation reference does not decode and one whose is unreadable.
C15_Witness ==
    /\ lhist # <<>>
    /\ Cardinality(lhist[1].runs) = 1
    /\ \E n \in root : EndsWith(n, MetaSuffix) /\ OprefExists(n)
                           /\ ~LoadOpref(n).ok /\ LoadOpref(n).exc = "ValueError"
    /\ \E n \in root : EndsWith(n, MetaSuffix) /\ OprefExists(n)
                           /\ ~LoadOpref(n).ok /\ LoadOpref(n).exc = "OSError"

\* All runs a listing has yielded or returned so far.
AllListedRuns == lresult \cup UNION {lhist[i].runs : i \in 1..Len(lhist)}

\* C17 as claimed: the integer derived for a listed run depends on its id
\* alone; it is the value of the first 8 characters when the id has at least
\* 32 characters and they parse as a hexadecimal integer, and the checksum of
\* the id otherwise; and it lies in 0..2^32-1 (a sign of 1 and two halves
\* below 2^16).
C17_DisplayNameInteger ==
    /\ \A r, q \in AllListedRuns : r.id = q.id => r.name_uint = q.name_uint
    /\ \A r \in AllListedRuns :
          /\ r.name_uint =
                (IF Len(r.id) >= 32 /\ ParseHex(SubSeq(r.id, 1, 8)) # None
                 THEN ParseHex(SubSeq(r.id, 1, 8))[1]
                 ELSE Crc32(r.id))
          /\ r.name_uint.sign = 1
          /\ r.name_uint.hi \in 0..65535
          /\ r.name_uint.lo \in 0..65535

\* -------------------------------------------------------------- meta API

\* run_util.py:100-102: meta_opref; ok is FALSE when the call raises
MetaOpref ==
    IF "opref" \notin MetaFiles THEN [ok |-> FALSE]
    ELSE LET opref == DecodeOpref(metas[MetaDir]["opref"].content) IN
         IF opref = None THEN [ok |-> FALSE] ELSE [ok |-> TRUE, value |-> opref[1]]

\* run_util.py:105-109: meta_opdef reads the operation reference first
MetaOpdefRead ==
    IF ~MetaOpref.ok \/ "opdef.json" \notin MetaFiles THEN [ok |-> FALSE]
    ELSE [ok |-> TRUE, value |-> metas[MetaDir]["opdef.json"].content]

\* run_util.py:112-114: meta_config
MetaConfig ==
    IF "config.json" \notin MetaFiles THEN [ok |-> FALSE]
    ELSE [ok |-> TRUE, value |-> metas[MetaDir]["config.json"].content]

\* run_util.py:117-121: meta_cmd
MetaCmd ==
    IF ~({"proc/cmd", "proc/env"} \subseteq MetaFiles) THEN [ok |-> FALSE]
    ELSE LET env == DecodeCmdEnv(metas[MetaDir]["proc/env"].content) IN
         IF env = None THEN [ok |-> FALSE]
         ELSE [ok |-> TRUE,
               args |-> DecodeCmdArgs(metas[MetaDir]["proc/cmd"].content),
               env |-> env[1]]

DictItems(d) == {d[i] : i \in 1..Len(d)}

\* The names of the lines of the environment file, in file order.
EnvFileNames ==
    LET lines == ReadLines(metas[MetaDir]["proc/env"].content) IN
    [i \in 1..Len(lines) |-> Split(lines[i], "=", 1)[1]]

\* C16 as claimed: once init_run_meta has written the command files, meta_cmd
\* returns the argument sequence and the environment mapping it was given,
\* and the environment file lists its lines in ascending order of name.
C16_CmdRoundTrips ==
    ({"proc/cmd", "proc/env"} \subseteq MetaFiles) =>
        /\ MetaCmd.ok
        /\ MetaCmd.args = args.cmd.args
        /\ DictItems(MetaCmd.env) = DictItems(args.cmd.env)
        /\ \A i, j \in 1..Len(EnvFileNames) :
              i < j => TextLess(EnvFileNames[i], EnvFileNames[j])

\* C11: once init_run_meta has been called with an operation reference whose
\* name differs from the operation definition's name, the call has ended with
\* a ValueError and nothing was created: the root holds no meta directory,
\* there is no meta file (no operation reference among them) and no meta
\* subdirectory, and no listing returns the run.
C11_MismatchRejectedUntouched ==
    (args # <<>> /\ args.opref.op_name # args.opdef.name) =>
        /\ pc = "init_rejected"
        /\ err = Some([kind |-> "ValueError"])
        /\ root = {RunId}
        /\ metas = <<>>
        /\ subdirs = <<>>
        /\ lresult = {}
        /\ \A i \in 1..Len(lhist) : lhist[i].runs = {}

\* The call was rejected, and a listing begun after the rejection has returned.
C11_Witness ==
    /\ pc = "init_rejected"
    /\ lhist # <<>>
    /\ lhist[Len(lhist)].at_start.rejected

\* ------------------------------------------------------ staging pipeline

\* Schema tags found in a meta directory: the one this core writes, and the
\* one of a run initialized by another version of the core.
SchemaTags == {META_SCHEMA, <<"2">>}

\* Exit codes of a hook's child process: success and two failures.
ExitCodes == {0, 1, 2}

\* File contents: two distinct byte strings.
Contents == {0, 1}

\* The meta directory init_run_meta leaves behind (no attributes given).
InitializedMeta(a, schema, timestamp) ==
    [name \in {"__schema__", "log/runner", "id", "opdef.json", "config.json",
               "proc/cmd", "proc/env", "opref", "initialized"} |->
        CASE name = "__schema__" -> WrittenFile(schema)
          [] name = "log/runner" -> [content |-> "runner", readonly |-> FALSE]
          [] name = "id" -> WrittenFile(RunId)
          [] name = "opdef.json" -> WrittenFile(a.opdef)
          [] name = "config.json" -> WrittenFile("config")
          [] name = "proc/cmd" -> WrittenFile(EncodeCmdArgs(a.cmd.args))
          [] name = "proc/env" -> WrittenFile(EncodeCmdEnv(a.cmd.env))
          [] name = "opref" -> WrittenFile(EncodeOpref(a.opref))
          [] OTHER -> WrittenFile(timestamp)]

\* run_util.py:105-109: the operation definition read back from the meta
MetaOpdef == metas[MetaDir]["opdef.json"].content

\* run_util.py:502-504
RunMetaSchema == RStrip(metas[MetaDir]["__schema__"].content)

\* A file as a copy, a hook or the configuration step leaves it.
FileStates == [mtime : 0..MaxMtime, content : Contents, readonly : {FALSE}]

Without(f, k) == [x \in DOMAIN f \ {k} |-> f[x]]

\* One file system operation of an external process on the run directory.
FileOpOutcomes(fs) ==
    {Put(fs, path, st) : path \in Paths, st \in FileStates}
        \cup {Without(fs, path) : path \in DOMAIN fs}

\* file_select.copy_files: any selection of paths, copied over what is there.
CopyOutcomes(fs) ==
    UNION {{[x \in DOMAIN fs \cup S |-> IF x \in S THEN f[x] ELSE fs[x]] :
                f \in [S -> FileStates]} : S \in SUBSET Paths}

\* run_config.apply_config: nothing, or one staged file rewritten.
ApplyConfigOutcomes(fs) ==
    {fs} \cup {Put(fs, path, st) : path \in DOMAIN fs, st \in FileStates}

MtimesOf(fs) == [x \in DOMAIN fs |-> fs[x].mtime]

\* The orders in which os.scandir may yield the files of the run directory.
Orderings(S) ==
    {o \in [1..Cardinality(S) -> S] : \A i, j \in 1..Cardinality(S) : i # j => o[i] # o[j]}

\* run_util.py:515: pre_files.get(relpath)
PreModified(pre_files, relpath) ==
    IF relpath \in DictKeys(pre_files) THEN DictVal(pre_files, relpath) ELSE None

\* run_util.py:511-520: the lines written for the files on disk
RECURSIVE SeenLines(_, _, _, _)
SeenLines(order, fs, pre_files, type) ==
    IF order = <<>> THEN <<>>
    ELSE LET relpath == Head(order)
             modified == Some(fs[relpath].mtime)
             pre_modified == PreModified(pre_files, relpath)
             event == IF pre_modified = None THEN "a" ELSE "m"
         IN  (IF modified = pre_modified THEN <<>>
              ELSE <<EncodeLoggedFile(LoggedFile(event, type, modified, relpath))>>)
                 \o SeenLines(Tail(order), fs, pre_files, type)

\* run_util.py:521-524: the lines written for indexed paths not seen on disk
RECURSIVE UnseenLines(_, _, _)
UnseenLines(pre_files, seen, type) ==
    IF pre_files = <<>> THEN <<>>
    ELSE (IF Head(pre_files).key \notin seen
          THEN <<EncodeLoggedFile(LoggedFile("d", type, None, Head(pre_files).key))>>
          ELSE <<>>)
             \o UnseenLines(Tail(pre_files), seen, type)

\* run_util.py:507-524: everything one scan appends
ApplyLogFilesLines(order, fs, pre_files, type) ==
    SeenLines(order, fs, pre_files, type) \o UnseenLines(pre_files, DOMAIN fs, type)

HookPc(phase) ==
    CASE phase = "stage-sourcecode" -> "sourcecode_hook"
      [] phase = "stage-runtime" -> "runtime_hook"
      [] phase = "stage-dependencies" -> "dependencies_hook"

ScanPc(phase) ==
    CASE phase = "stage-sourcecode" -> "sourcecode_scan"
      [] phase = "stage-runtime" -> "runtime_scan"
      [] phase = "stage-dependencies" -> "dependencies_scan"

\* An order of phases in which stage_runtime follows stage_sourcecode at once.
AfterScanPcSkipsConfig(phase) ==
    CASE phase = "stage-sourcecode" -> "runtime_hook"
      [] phase = "stage-runtime" -> "dependencies_hook"
      [] phase = "stage-dependencies" -> "finalize"

AfterScanPc(phase) ==
    CASE phase = "stage-sourcecode" -> "apply_config"
      [] phase = "stage-runtime" -> "dependencies_hook"
      [] phase = "stage-dependencies" -> "finalize"

\* run_util.py:329, 365, 387: the type tag of the phase's scan
ScanType(phase) ==
    CASE phase = "stage-sourcecode" -> "s"
      [] phase = "stage-runtime" -> "r"
      [] phase = "stage-dependencies" -> "d"

\* A phase begins: it is appended to the history unless the history ends with it.
Begun(phase) == IF started # <<>> /\ started[Len(started)] = phase THEN started
                ELSE Append(started, phase)

\* run_util.py:316-317, 324-327, 332-335: stage_run enters stage_sourcecode,
\* which reads the operation definition and copies the selected source files.
CopySourcecode ==
    /\ pc = "stage_run"
    /\ started' = Begun("stage-sourcecode")
    /\ run_files' \in CopyOutcomes(run_files)
    /\ pc' = "sourcecode_hook"
    /\ last_step' = [op |-> "copy"]
    /\ UNCHANGED <<root, metas, subdirs, args>>
    /\ UNCHANGED <<manifest, todo, child, err, exits, prev_scan, manifest_was>>
    /\ UNCHANGED <<tsvars, foldvars, listvars>>

\* run_util.py:338-340, 368-370, 400-402: the phase has no hook
HookSkip(phase) ==
    /\ pc = HookPc(phase)
    /\ child.state = "none"
    /\ phase \notin MetaOpdef.hooks
    /\ started' = Begun(phase)
    /\ pc' = ScanPc(phase)
    /\ last_step' = [op |-> "hook_skip"]
    /\ UNCHANGED <<root, metas, subdirs, args>>
    /\ UNCHANGED <<run_files, manifest, todo, child, err, exits, prev_scan, manifest_was>>
    /\ UNCHANGED <<tsvars, foldvars, listvars>>

\* run_util.py:644-659: the hook's child process is started, its output
\* attached to output/<name>.
HookStart(phase) ==
    /\ pc = HookPc(phase)
    /\ child.state = "none"
    /\ phase \in MetaOpdef.hooks
    /\ started' = Begun(phase)
    /\ child' = [state |-> "running", ops |-> 0]
    /\ subdirs' = [subdirs EXCEPT ![MetaDir] = @ \cup {"output"}]
    /\ last_step' = [op |-> "hook_start"]
    /\ UNCHANGED <<pc, root, metas, args>>
    /\ UNCHANGED <<run_files, manifest, todo, err, exits, prev_scan, manifest_was>>
    /\ UNCHANGED <<tsvars, foldvars, listvars>>

\* The child process changes the run directory.
ChildFileOp ==
    /\ child.state = "running"
    /\ child.ops < MaxHookOps
    /\ run_files' \in FileOpOutcomes(run_files)
    /\ child' = [child EXCEPT !.ops = @ + 1]
    /\ last_step' = [op |-> "child"]
    /\ UNCHANGED metavars
    /\ UNCHANGED <<manifest, todo, err, started, exits, prev_scan, manifest_was>>
    /\ UNCHANGED <<tsvars, foldvars, listvars>>

\* Line boundaries of str.splitlines() that hook texts use here.
LineBreakChars == {"\n", "\r"}

\* str.splitlines(): the lines without their line breaks; "\r\n" is one break
\* and a final break opens no further line.
RECURSIVE SplitLinesFrom(_, _)
SplitLinesFrom(s, cur) ==
    IF s = <<>> THEN (IF cur = <<>> THEN <<>> ELSE <<cur>>)
    ELSE IF Len(s) >= 2 /\ s[1] = "\r" /\ s[2] = "\n"
         THEN <<cur>> \o SplitLinesFrom(Tail(Tail(s)), <<>>)
    ELSE IF Head(s) \in LineBreakChars
         THEN <<cur>> \o SplitLinesFrom(Tail(s), <<>>)
    ELSE SplitLinesFrom(Tail(s), Append(cur, Head(s)))

SplitLines(s) == SplitLinesFrom(s, <<>>)

\* str.startswith
StartsWith(s, prefix) ==
    Len(s) >= Len(prefix) /\ SubSeq(s, 1, Len(prefix)) = prefix

\* A hook value: a list of arguments or one string.
ExecList(items) == [kind |-> "list", items |-> items]
ExecStr(text) == [kind |-> "str", text |-> text]

\* run_util.py:667-674: ok is FALSE for the ValueError of unpacking no lines.
ProcArgs(exec_cmd) ==
    IF exec_cmd.kind = "list" THEN [ok |-> TRUE, args |-> exec_cmd, shell |-> FALSE]
    ELSE LET lines == SplitLines(exec_cmd.text) IN
         IF lines = <<>> THEN [ok |-> FALSE]
         ELSE LET line1 == Head(lines)
                  rest == Tail(lines)
              IN  IF StartsWith(line1, <<"#", "!">>)
                  THEN [ok |-> TRUE,
                        args |-> ExecList(<<RStrip(SubSeq(line1, 3, Len(line1))), <<"-", "c">>,
                                            Join(rest)>>),
                        shell |-> FALSE]
                  ELSE [ok |-> TRUE, args |-> exec_cmd, shell |-> TRUE]

\* Hook values an operation definition may give: an argument list; a string
\* naming an interpreter and a script of two lines; the same with blanks after
\* the interpreter, "\r\n" line ends and a final line end; an interpreter
\* alone; a shell command line; a shell text of two lines.
ExecCmds ==
    {[kind |-> "list", items |-> <<<<"m", "k">>, <<"x">>>>],
     [kind |-> "str", text |-> <<"#", "!", "p", "y", "\n", "a", "\n", "b">>],
     [kind |-> "str", text |-> <<"#", "!", "s", "h", " ", "\r", "\n", "a", "\r", "\n">>],
     [kind |-> "str", text |-> <<"#", "!", "s", "h">>],
     [kind |-> "str", text |-> <<"m", "k", " ", "x">>],
     [kind |-> "str", text |-> <<"a", "\n", "b">>]}

\* opdef.get_exec().get_stage_*(): the hook the operation definition of the
\* staging pipeline gives for a phase.
OpdefExec(phase) ==
    CASE phase = "stage-sourcecode" -> [kind |-> "list", items |-> <<<<"m", "k">>, <<"x">>>>]
      [] phase = "stage-runtime" -> [kind |-> "str", text |-> <<"#", "!", "p", "y", "\n", "a", "\n", "b">>]
      [] phase = "stage-dependencies" -> [kind |-> "str", text |-> <<"m", "k", " ", "x">>]

\* An error that reports exit code 1 whatever the child's code was.
RunExecErrorExitOne(phase_name, proc_args, exit_code) ==
    [kind |-> "RunExecError", phase_name |-> phase_name, proc_args |-> proc_args,
     exit_code |-> 1]

\* run_util.py:631-632, 664
RunExecError(phase_name, proc_args, exit_code) ==
    [kind |-> "RunExecError", phase_name |-> phase_name, proc_args |-> proc_args,
     exit_code |-> exit_code]

\* A check that takes no exit code for a failure.
ExitIsFailureNever(exit_code) == FALSE

\* A check that takes only exit code 1 for a failure.
ExitIsFailureOnlyOne(exit_code) == exit_code = 1

\* run_util.py:663
ExitIsFailure(exit_code) == exit_code # 0

\* run_util.py:660-664: the child exits, p.wait() returns its code, the output
\* is closed, and a non-zero code is raised as RunExecError.
HookExit(phase) ==
    /\ pc = HookPc(phase)
    /\ child.state = "running"
    /\ \E exit_code \in ExitCodes :
          /\ exits' = Append(exits, [phase |-> phase, exit_code |-> exit_code])
          /\ IF ExitIsFailure(exit_code)
             THEN /\ err' = Some(RunExecError(phase, ProcArgs(OpdefExec(phase)).args, exit_code))
                  /\ pc' = "failed"
             ELSE /\ err' = err
                  /\ pc' = ScanPc(phase)
    /\ child' = [state |-> "none"]
    /\ last_step' = [op |-> "hook_exit"]
    /\ UNCHANGED <<root, metas, subdirs, args>>
    /\ UNCHANGED <<run_files, manifest, todo, started, prev_scan, manifest_was>>
    /\ UNCHANGED <<tsvars, foldvars, listvars>>

\* The log opened with mode "w": what was there is dropped.
FilesLogRewritten(old, lines) == lines

\* run_util.py:594-595, 520, 524: the log is opened with mode "a" and written
FilesLogAppended(old, lines) == old \o lines

\* run_util.py:507-524: a phase's scan.  Reading the log fails before the log
\* is opened for appending; otherwise the lines are appended.
ApplyLogFiles(phase) ==
    /\ pc = ScanPc(phase)
    /\ LET it == IterFilesLog(RunMetaSchema, log) IN
       IF ~it.ok
       THEN /\ err' = Some([kind |-> "TypeError"])
            /\ pc' = "failed"
            /\ last_step' = [op |-> "scan_failed"]
            /\ UNCHANGED <<log, prev_scan, manifest_was>>
       ELSE \E order \in Orderings(DOMAIN run_files) :
              LET lines == ApplyLogFilesLines(order, run_files,
                               InitPreFilesIndex(RunMetaSchema, log), ScanType(phase))
              IN  /\ log' = FilesLogAppended(log, lines)
                  /\ last_step' = [op |-> "scan",
                                   type |-> ScanType(phase),
                                   unchanged |-> prev_scan = Some(MtimesOf(run_files)),
                                   appended |-> Len(lines)]
                  /\ prev_scan' = Some(MtimesOf(run_files))
                  /\ pc' = AfterScanPc(phase)
                  /\ err' = err
    /\ UNCHANGED <<root, metas, subdirs, args>>
    /\ UNCHANGED <<run_files, manifest, todo, child, started, exits, manifest_was>>
    /\ UNCHANGED <<tsvars, fold_out, listvars>>

\* run_util.py:352-358, 624-628: configuration applied to the staged files, the
\* diffs appended to log/patched.
ApplyConfig ==
    /\ pc = "apply_config"
    /\ started' = Begun("apply-config")
    /\ run_files' \in ApplyConfigOutcomes(run_files)
    /\ metas' = [metas EXCEPT ![MetaDir] =
                    Put(@, "log/patched", [content |-> "patched", readonly |-> FALSE])]
    /\ pc' = "runtime_hook"
    /\ last_step' = [op |-> "apply_config"]
    /\ UNCHANGED <<root, subdirs, args>>
    /\ UNCHANGED <<manifest, todo, child, err, exits, prev_scan, manifest_was>>
    /\ UNCHANGED <<tsvars, foldvars, listvars>>

\* ------------------------------------------------ hook process executor

\* run_util.py:347, 377, 409: the output file of each phase's hook
OutputName(phase) ==
    CASE phase = "stage-sourcecode" -> "10_sourcecode"
      [] phase = "stage-runtime" -> "20_runtime"
      [] phase = "stage-dependencies" -> "30_dependencies"

\* An executor that waits for the child before it attaches the output.
ExecNextWaitFirst(step) ==
    CASE step = "popen" -> "wait"
      [] step = "wait" -> "open"
      [] step = "open" -> "close"
      [] step = "close" -> "report"

\* run_util.py:646-664: what _run_phase_exec does after each of its steps:
\* Popen, output.open(p), p.wait(), output.wait_and_close(), return or raise.
ExecNext(step) ==
    CASE step = "popen" -> "open"
      [] step = "open" -> "wait"
      [] step = "wait" -> "close"
      [] step = "close" -> "report"

\* run_util.py:646-655: the command is resolved and the child started with
\* its output and error streams on one pipe; the child has some amount of
\* output to write.
ExecPopen ==
    /\ pc = "popen"
    /\ LET resolved == ProcArgs(args.exec_cmd) IN
       \E amount \in 0..MaxOutput :
          child' = [state |-> "running", proc_args |-> resolved.args, shell |-> resolved.shell,
                    to_write |-> amount, pipe |-> 0, captured |-> 0, reader |-> "none"]
    /\ pc' = ExecNext("popen")
    /\ UNCHANGED <<root, metas, subdirs, args>>
    /\ UNCHANGED <<run_files, manifest, todo, err, started, exits, prev_scan, manifest_was, last_step>>
    /\ UNCHANGED <<tsvars, foldvars, listvars>>

\* run_util.py:656-659: the output directory is made and the capture is
\* attached to the started process.
ExecOpenOutput ==
    /\ pc = "open"
    /\ subdirs' = [subdirs EXCEPT ![MetaDir] = @ \cup {"output"}]
    /\ child' = [child EXCEPT !.reader = "reading"]
    /\ pc' = ExecNext("open")
    /\ UNCHANGED <<root, metas, args>>
    /\ UNCHANGED <<run_files, manifest, todo, err, started, exits, prev_scan, manifest_was, last_step>>
    /\ UNCHANGED <<tsvars, foldvars, listvars>>

\* The child writes to the pipe; it blocks while the pipe is full.
ChildWrite ==
    /\ pc \in {"open", "wait", "close", "report"}
    /\ child.state = "running"
    /\ child.to_write > 0
    /\ child.pipe < PipeCapacity
    /\ child' = [child EXCEPT !.to_write = @ - 1, !.pipe = @ + 1]
    /\ UNCHANGED metavars
    /\ UNCHANGED <<run_files, manifest, todo, err, started, exits, prev_scan, manifest_was, last_step>>
    /\ UNCHANGED <<tsvars, foldvars, listvars>>

\* The child has written all it had to and exits with some code.
ChildExits ==
    /\ pc \in {"open", "wait", "close", "report"}
    /\ child.state = "running"
    /\ child.to_write = 0
    /\ \E exit_code \in ExitCodes :
          child' = [state |-> "exited", proc_args |-> child.proc_args, shell |-> child.shell,
                    to_write |-> 0, pipe |-> child.pipe, captured |-> child.captured,
                    reader |-> child.reader, exit_code |-> exit_code]
    /\ UNCHANGED metavars
    /\ UNCHANGED <<run_files, manifest, todo, err, started, exits, prev_scan, manifest_was, last_step>>
    /\ UNCHANGED <<tsvars, foldvars, listvars>>

\* The attached capture reads from the pipe while the executor goes on.
ReaderDrain ==
    /\ pc \in {"open", "wait", "close", "report"}
    /\ child.reader = "reading"
    /\ child.pipe > 0
    /\ child' = [child EXCEPT !.pipe = @ - 1, !.captured = @ + 1]
    /\ UNCHANGED metavars
    /\ UNCHANGED <<run_files, manifest, todo, err, started, exits, prev_scan, manifest_was, last_step>>
    /\ UNCHANGED <<tsvars, foldvars, listvars>>

\* The capture reads the end of the stream once the child is gone and the
\* pipe is empty.
ReaderEof ==
    /\ pc \in {"open", "wait", "close", "report"}
    /\ child.reader = "reading"
    /\ child.pipe = 0
    /\ child.state = "exited"
    /\ child' = [child EXCEPT !.reader = "eof"]
    /\ UNCHANGED metavars
    /\ UNCHANGED <<run_files, manifest, todo, err, started, exits, prev_scan, manifest_was, last_step>>
    /\ UNCHANGED <<tsvars, foldvars, listvars>>

\* run_util.py:660: p.wait() returns once the child has exited.
ExecWait ==
    /\ pc = "wait"
    /\ child.state = "exited"
    /\ pc' = ExecNext("wait")
    /\ UNCHANGED <<root, metas, subdirs, args>>
    /\ UNCHANGED <<run_files, manifest, todo, child, err, started, exits, prev_scan,
                   manifest_was, last_step>>
    /\ UNCHANGED <<tsvars, foldvars, listvars>>

\* run_util.py:661: output.wait_and_close() returns once the capture has read
\* the end of the stream; the output file holds what was captured.
ExecWaitAndClose ==
    /\ pc = "close"
    /\ child.reader = "eof"
    /\ child' = [child EXCEPT !.reader = "closed"]
    /\ metas' = [metas EXCEPT ![MetaDir] =
                    Put(@, AttrFile("output", args.output_name),
                        [content |-> child.captured, readonly |-> FALSE])]
    /\ pc' = ExecNext("close")
    /\ UNCHANGED <<root, subdirs, args>>
    /\ UNCHANGED <<run_files, manifest, todo, err, started, exits, prev_scan, manifest_was, last_step>>
    /\ UNCHANGED <<tsvars, foldvars, listvars>>

\* run_util.py:662-664: the exit code is logged; a non-zero code is raised
\* with the phase name, the resolved arguments and the code.
ExecReport ==
    /\ pc = "report"
    /\ exits' = Append(exits, [phase |-> args.phase_name, exit_code |-> child.exit_code])
    /\ IF ExitIsFailure(child.exit_code)
       THEN /\ err' = Some(RunExecError(args.phase_name, child.proc_args, child.exit_code))
            /\ pc' = "raised"
       ELSE /\ err' = err
            /\ pc' = "returned"
    /\ UNCHANGED <<root, metas, subdirs, args>>
    /\ UNCHANGED <<run_files, manifest, todo, child, started, prev_scan, manifest_was, last_step>>
    /\ UNCHANGED <<tsvars, foldvars, listvars>>

\* run_util.py:635-664 with the child process and the capture at work
RunPhaseExec ==
    \/ ExecPopen
    \/ ExecOpenOutput
    \/ ChildWrite
    \/ ChildExits
    \/ ReaderDrain
    \/ ReaderEof
    \/ ExecWait
    \/ ExecWaitAndClose
    \/ ExecReport

\* _run_phase_exec is called for a hook of an initialized run: any phase with
\* any hook value.
InitExec ==
    /\ \E phase \in HookPhases, exec_cmd \in ExecCmds :
          args = [phase_name |-> phase, exec_cmd |-> exec_cmd,
                  output_name |-> OutputName(phase)]
    /\ metas = (MetaDir :>
                  InitializedMeta([opref |-> [op_name |-> "op"],
                                   opdef |-> [name |-> "op", hooks |-> HookPhases],
                                   cmd |-> [args |-> << <<"e", "c", "h", "o">> >>, env |-> <<>>]],
                                  META_SCHEMA, InitializedAt))
    /\ last_ts = Some(InitializedAt)
    /\ pc = "popen"
    /\ root = {RunId, MetaDir}
    /\ subdirs = (MetaDir :> {"log", "proc"})
    /\ lock_owner = 0
    /\ tpc = [t \in Threads |-> "idle"]
    /\ tts = [t \in Threads |-> 0]
    /\ calls = 0
    /\ issued = <<>>
    /\ returned = <<>>
    /\ seen_before = [t \in Threads |-> <<>>]
    /\ lpc = "idle"
    /\ lnames = {}
    /\ lresult = {}
    /\ lstart = <<>>
    /\ lhist = <<>>
    /\ FoldFresh
    /\ StageFresh

NextExec == RunPhaseExec

\* The child, the capture and the executor are each scheduled again and
\* again: a step that stays possible is taken.
SpecExec == InitExec /\ [][NextExec]_vars /\ WF_vars(NextExec)

\* ---------------------------------------------------- manifest finalizer

\* file_util.file_sha256: the digest of a file's bytes
Digest(content) == <<"sha256", content>>

\* run_util.py:616-621
ManifestEntry(type, digest, path) == [type |-> type, digest |-> digest, path |-> path]

\* run_util.py:426-427: the entry added for a file of the fold
EntryFor(type, path, file) == ManifestEntry(type, Digest(file.content), path)

\* run_util.py:422, 602-604: RunManifest(run, "w") creates the file or
\* truncates the one that is there
ManifestOpened(old) == Some(<<>>)

\* run_util.py:414-416, 420-423: finalize_staged_run is entered; the manifest
\* is opened, then the log is folded.
FinalizeOpen ==
    /\ pc = "finalize"
    /\ started' = Begun("finalize")
    /\ manifest_was' = Append(manifest_was, manifest)
    /\ manifest' = ManifestOpened(manifest)
    /\ LET it == IterFilesLog(RunMetaSchema, log) IN
       IF ~it.ok
       THEN /\ err' = Some([kind |-> "TypeError"])
            /\ pc' = "failed"
            /\ todo' = <<>>
       ELSE /\ todo' = ReduceFilesLog(RunMetaSchema, log)
            /\ pc' = "finalize_files"
            /\ err' = err
    /\ last_step' = [op |-> "finalize_open"]
    /\ UNCHANGED <<root, metas, subdirs, args>>
    /\ UNCHANGED <<run_files, child, exits, prev_scan>>
    /\ UNCHANGED <<tsvars, foldvars, listvars>>

\* run_util.py:423-427: one item of the fold: the file is made read-only
\* (which fails when it is not there), digested and added to the manifest.
FinalizeFile ==
    /\ pc = "finalize_files"
    /\ todo # <<>>
    /\ LET path == Head(todo).key
           type == Head(todo).val
       IN  IF path \notin DOMAIN run_files
           THEN /\ err' = Some([kind |-> "OSError"])
                /\ pc' = "failed"
                /\ todo' = <<>>
                /\ UNCHANGED <<run_files, manifest>>
           ELSE /\ run_files' = [run_files EXCEPT ![path].readonly = TRUE]
                /\ manifest' = Some(Append(manifest[1], EntryFor(type, path, run_files[path])))
                /\ todo' = Tail(todo)
                /\ UNCHANGED <<err, pc>>
    /\ last_step' = [op |-> "finalize_file"]
    /\ UNCHANGED <<root, metas, subdirs, args>>
    /\ UNCHANGED <<child, started, exits, prev_scan, manifest_was>>
    /\ UNCHANGED <<tsvars, foldvars, listvars>>

\* run_util.py:422, 613-614: the manifest is closed
FinalizeClose ==
    /\ pc = "finalize_files"
    /\ todo = <<>>
    /\ pc' = "write_staged"
    /\ last_step' = [op |-> "finalize_close"]
    /\ UNCHANGED <<root, metas, subdirs, args>>
    /\ UNCHANGED <<run_files, manifest, todo, child, err, started, exits, prev_scan, manifest_was>>
    /\ UNCHANGED <<tsvars, foldvars, listvars>>

\* file_util.write_file(filename, content, readonly=True) on a file that may
\* be there already, read-only: the write goes through (the process may write
\* it all the same) or is refused.
WriteFileOutcomes(files, name, content) ==
    {[ok |-> TRUE, files |-> Put(files, name, WrittenFile(content))]}
        \cup (IF name \in DOMAIN files /\ files[name].readonly
              THEN {[ok |-> FALSE, files |-> files]}
              ELSE {})

\* run_util.py:417, 430-434
WriteStagedTimestamp ==
    /\ pc = "write_staged"
    /\ \E now \in ClockReadings :
          LET timestamp == ChooseTs(last_ts, now) IN
          /\ last_ts' = Some(timestamp)
          /\ \E w \in WriteFileOutcomes(metas[MetaDir], "staged", timestamp) :
                /\ metas' = [metas EXCEPT ![MetaDir] = w.files]
                /\ pc' = IF w.ok THEN "staged" ELSE "failed"
                /\ err' = IF w.ok THEN err ELSE Some([kind |-> "OSError"])
          /\ last_step' = [op |-> "write_staged"]
    /\ UNCHANGED <<root, subdirs, args>>
    /\ UNCHANGED <<run_files, manifest, todo, child, started, exits, prev_scan, manifest_was>>
    /\ UNCHANGED <<lock_owner, tpc, tts, calls, issued, returned, seen_before>>
    /\ UNCHANGED <<foldvars, listvars>>

\* run_util.py:451-460: the run's command, started by start_run with the run
\* directory as its working directory, removes a file there.
RunFileOp ==
    /\ pc = "staged"
    /\ last_step.op = "write_staged"
    /\ Len(manifest_was) < MaxFinalizes
    /\ \E path \in DOMAIN run_files : run_files' = Without(run_files, path)
    /\ last_step' = [op |-> "run_file_op"]
    /\ UNCHANGED metavars
    /\ UNCHANGED <<manifest, todo, child, err, started, exits, prev_scan, manifest_was>>
    /\ UNCHANGED <<tsvars, foldvars, listvars>>

\* run_util.py:414-417
FinalizeStagedRun == FinalizeOpen \/ FinalizeFile \/ FinalizeClose \/ WriteStagedTimestamp

\* run_util.py:316-321
StageRun ==
    \/ CopySourcecode
    \/ ApplyConfig
    \/ \E phase \in HookPhases :
          \/ HookSkip(phase)
          \/ HookStart(phase)
          \/ HookExit(phase)
          \/ ApplyLogFiles(phase)
    \/ ChildFileOp
    \/ FinalizeStagedRun

\* run_util.py:414: finalize_staged_run is called again on the staged run.
FinalizeAgain ==
    /\ pc = "staged"
    /\ Len(manifest_was) < MaxFinalizes
    /\ pc' = "finalize"
    /\ last_step' = [op |-> "finalize_again"]
    /\ UNCHANGED <<root, metas, subdirs, args>>
    /\ UNCHANGED <<run_files, manifest, todo, child, err, started, exits, prev_scan, manifest_was>>
    /\ UNCHANGED <<tsvars, foldvars, listvars>>

\* Staging, then the run's command, then possibly finalize_staged_run again.
StageAndRun == StageRun \/ RunFileOp \/ FinalizeAgain

\* A run made by make_run and initialized by init_run_meta in this process:
\* its meta directory is complete, its run directory empty.
Init ==
    /\ \E hooks \in SUBSET HookPhases, schema \in SchemaTags, timestamp \in {InitializedAt} :
          /\ args = [opref |-> [op_name |-> "op"],
                     opdef |-> [name |-> "op", hooks |-> hooks],
                     cmd |-> [args |-> << <<"e", "c", "h", "o">>, <<"h", "i">> >>,
                              env |-> <<>>],
                     user_attrs |-> {},
                     system_attrs |-> {}]
          /\ metas = (MetaDir :> InitializedMeta(args, schema, timestamp))
          /\ last_ts = Some(timestamp)
    /\ pc = "stage_run"
    /\ root = {RunId, MetaDir}
    /\ subdirs = (MetaDir :> {"log", "proc"})
    /\ lock_owner = 0
    /\ tpc = [t \in Threads |-> "idle"]
    /\ tts = [t \in Threads |-> 0]
    /\ calls = 0
    /\ issued = <<>>
    /\ returned = <<>>
    /\ seen_before = [t \in Threads |-> <<>>]
    /\ lpc = "idle"
    /\ lnames = {}
    /\ lresult = {}
    /\ lstart = <<>>
    /\ lhist = <<>>
    /\ FoldFresh
    /\ StageFresh

Next == StageRun

\* The initial states of Spec are states init_run_meta ends in: checked as an
\* invariant of SpecMeta.
InitIsAsInitRunMetaLeavesIt ==
    (pc = "initialized" /\ args.user_attrs = {} /\ args.system_attrs = {}) =>
        /\ metas = (MetaDir :> InitializedMeta(args, META_SCHEMA,
                                               metas[MetaDir]["initialized"].content))
        /\ last_ts = Some(metas[MetaDir]["initialized"].content)
        /\ root = {RunId, MetaDir}
        /\ subdirs = (MetaDir :> {"log", "proc"})
        /\ run_files = <<>>

Spec == Init /\ [][Next]_vars

NextAgain == StageAndRun

\* The pipeline followed by the run's command and further finalize calls.
SpecAgain == Init /\ [][NextAgain]_vars

\* A file whose name is one blank, as a copy leaves it.
BlankPath == <<" ">>

\* What stage_run finds: a run just initialized, or a run an earlier stage_run
\* gave up on.  That earlier call copied a file named " ", whose scan wrote
\* the line "a s 1  \n", applied the configuration, and failed in the next
\* scan, which reads the line stripped, as three fields.
PriorRuns ==
    {[files |-> <<>>, lines |-> <<>>, patched |-> FALSE],
     [files |-> (BlankPath :> [mtime |-> MaxMtime, content |-> 0, readonly |-> FALSE]),
      lines |-> <<EncodeLoggedFile(LoggedFile("a", "s", Some(MaxMtime), BlankPath))>>,
      patched |-> TRUE]}

\* The hooks of the operation staged again: none, or one in every phase.
RestageHooks == {{}, HookPhases}

InitRestage ==
    /\ \E hooks \in RestageHooks, schema \in SchemaTags, prior \in PriorRuns :
          /\ args = [opref |-> [op_name |-> "op"],
                     opdef |-> [name |-> "op", hooks |-> hooks],
                     cmd |-> [args |-> << <<"e", "c", "h", "o">>, <<"h", "i">> >>,
                              env |-> <<>>],
                     user_attrs |-> {},
                     system_attrs |-> {}]
          /\ metas = (MetaDir :>
                        IF prior.patched
                        THEN Put(InitializedMeta(args, schema, InitializedAt), "log/patched",
                                 [content |-> "patched", readonly |-> FALSE])
                        ELSE InitializedMeta(args, schema, InitializedAt))
          /\ run_files = prior.files
          /\ log = prior.lines
    /\ last_ts = Some(InitializedAt)
    /\ pc = "stage_run"
    /\ root = {RunId, MetaDir}
    /\ subdirs = (MetaDir :> {"log", "proc"})
    /\ lock_owner = 0
    /\ tpc = [t \in Threads |-> "idle"]
    /\ tts = [t \in Threads |-> 0]
    /\ calls = 0
    /\ issued = <<>>
    /\ returned = <<>>
    /\ seen_before = [t \in Threads |-> <<>>]
    /\ lpc = "idle"
    /\ lnames = {}
    /\ lresult = {}
    /\ lstart = <<>>
    /\ lhist = <<>>
    /\ fold_out = None
    /\ manifest = None
    /\ todo = <<>>
    /\ child = [state |-> "none"]
    /\ err = None
    /\ started = <<>>
    /\ exits = <<>>
    /\ prev_scan = None
    /\ manifest_was = <<>>
    /\ last_step = [op |-> "none"]

NextRestage == StageRun

\* stage_run on a run as it is found.
SpecRestage == InitRestage /\ [][NextRestage]_vars

IsPrefix(a, b) == Len(a) <= Len(b) /\ SubSeq(b, 1, Len(a)) = a

\* C5: a hook that exited non-zero is the last thing stage_run did: the run
\* has failed with a RunExecError naming that hook's phase and carrying its
\* exit code, and the last phase started is that phase.
C5_HookFailureStopsPipeline ==
    \A i \in 1..Len(exits) :
        exits[i].exit_code # 0 =>
            /\ i = Len(exits)
            /\ pc = "failed"
            /\ err = Some(RunExecError(exits[i].phase, ProcArgs(OpdefExec(exits[i].phase)).args,
                                       exits[i].exit_code))
            /\ started[Len(started)] = exits[i].phase

\* The stage-runtime hook exited with code 2 after the earlier phases ran.
C5_Witness ==
    /\ pc = "failed"
    /\ err = Some(RunExecError("stage-runtime", ProcArgs(OpdefExec("stage-runtime")).args, 2))
    /\ started = <<"stage-sourcecode", "apply-config", "stage-runtime">>

\* The paths of the fold of the file-change log.
FoldedPaths == DictKeys(ReduceFilesLog(RunMetaSchema, log))

\* C6 as claimed: right after a scan the paths of the folded log are exactly
\* the files in the run directory.
C6_FoldEqualsDisk ==
    last_step.op = "scan" => FoldedPaths = DOMAIN run_files

\* C8 as claimed: a scan that finds the files and their modification times as
\* the previous scan found them appends nothing.
C8_UnchangedScanAppendsNothing ==
    (last_step.op = "scan" /\ last_step.unchanged) => last_step.appended = 0

ManifestEntriesFor(path) ==
    {i \in 1..Len(manifest[1]) : manifest[1][i].path = path}

\* C9 as claimed: after stage_run completed, every file of the run directory
\* has exactly one manifest entry, with the digest of its content, and every
\* manifest entry is for a file of the run directory.
C9_ManifestMatchesDisk ==
    pc = "staged" =>
        /\ \A path \in DOMAIN run_files :
              /\ Cardinality(ManifestEntriesFor(path)) = 1
              /\ \A i \in ManifestEntriesFor(path) :
                    manifest[1][i].digest = Digest(run_files[path].content)
        /\ \A i \in 1..Len(manifest[1]) : manifest[1][i].path \in DOMAIN run_files

\* C10: no step of the pipeline (a scan, a failed scan, a hook, a failed hook,
\* the finalizer) rewrites, reorders or removes a line of the file-change
\* log: the log before the step is a prefix of the log after it.
C10_LogAppendOnly == [][IsPrefix(log, log')]_vars

\* A scan has appended lines to a log that already had some.
C10_Witness ==
    /\ last_step.op = "scan"
    /\ last_step.appended > 0
    /\ Len(log) > last_step.appended

\* C12 as claimed: while the run's schema tag differs from META_SCHEMA, every
\* read of the run fails: the file-change log, meta_opref, meta_opdef,
\* meta_config, meta_cmd, and the visit of the run by list_runs; so the
\* pipeline, which reads the operation definition first, gets nowhere.
C12_SchemaMismatchFailsEveryRead ==
    RunMetaSchema # META_SCHEMA =>
        /\ ~IterFilesLog(RunMetaSchema, log).ok
        /\ ~MetaOpref.ok
        /\ ~MetaOpdefRead.ok
        /\ ~MetaConfig.ok
        /\ ~MetaCmd.ok
        /\ IterRunsVisit(MetaDir) = {}
        /\ last_step.op \in {"none", "scan_failed"}

\* C13 as claimed: every meta file is read-only, and no step changes the
\* content of a meta file that exists: the files init_run_meta wrote, the
\* runner log, the applied-config-diff log and the staged timestamp (metas),
\* the file-change log once it has lines, and the manifest once it exists.
C13_MetaFilesImmutable ==
    /\ [](\A name \in MetaFiles : metas[MetaDir][name].readonly)
    /\ [][/\ \A name \in MetaFiles :
               /\ name \in DOMAIN metas'[MetaDir]
               /\ metas'[MetaDir][name].content = metas[MetaDir][name].content
          /\ log # <<>> => log' = log
          /\ manifest # None => manifest' = manifest]_vars

InitializedValue == metas[MetaDir]["initialized"].content
StagedValue == metas[MetaDir]["staged"].content

\* C14: when stage_run (or a later finalize_staged_run) has completed on a run
\* initialized in this process, the staged-timestamp file exists and its value
\* is strictly greater than the initialized-timestamp value, for every clock
\* reading; and when the operation has no hooks and the scans found the run
\* directory empty (no source file was selected), the manifest stage_run wrote
\* is empty.
C14_StagedAfterInitialized ==
    pc = "staged" =>
        /\ "staged" \in MetaFiles
        /\ StagedValue > InitializedValue
        /\ (MetaOpdef.hooks = {} /\ prev_scan = Some(<<>>) /\ Len(manifest_was) = 1)
              => manifest = Some(<<>>)

\* A run with no hooks and no source files has been staged.
C14_Witness ==
    /\ pc = "staged"
    /\ MetaOpdef.hooks = {}
    /\ prev_scan = Some(<<>>)
    /\ Len(manifest_was) = 1
    /\ manifest = Some(<<>>)
    /\ StagedValue = InitializedAt + 1

\* The known files of a log as the specification folds it: path -> modified
\* of the most recent add or modify event, a delete removing the path.
RECURSIVE KnownFrom(_, _)
KnownFrom(files, known) ==
    IF files = <<>> THEN known
    ELSE KnownFrom(Tail(files),
                   IF Head(files).event = "d" THEN DictPop(known, Head(files).path)
                   ELSE DictSet(known, Head(files).path, Head(files).modified))

\* The events a scan of type `type` is to append for the files fs, given the
\* log so far, as lines.
ExpectedLines(old, fs, type) ==
    LET known == KnownFrom(IterFilesLog(RunMetaSchema, old).files, <<>>)
        adds == {LoggedFile("a", type, Some(fs[p].mtime), p) : p \in DOMAIN fs \ DictKeys(known)}
        modifies == {LoggedFile("m", type, Some(fs[p].mtime), p) :
                        p \in {q \in DOMAIN fs \cap DictKeys(known) :
                                  DictVal(known, q) # Some(fs[q].mtime)}}
        deletes == {LoggedFile("d", type, None, p) : p \in DictKeys(known) \ DOMAIN fs}
    IN  {EncodeLoggedFile(e) : e \in adds \cup modifies \cup deletes}

\* C18 as claimed: the lines a scan appended are exactly, once each, the add,
\* modify and delete events computed from the fold of the log before the scan
\* and the files on disk, each with the scanning phase's type tag.
C18_ScanAppendsExactlyTheChanges ==
    last_step.op = "scan" =>
        LET old == SubSeq(log, 1, Len(log) - last_step.appended)
            new == SubSeq(log, Len(old) + 1, Len(log))
            expected == ExpectedLines(old, run_files, last_step.type)
        IN  /\ {new[i] : i \in 1..Len(new)} = expected
            /\ Len(new) = Cardinality(expected)

\* The add and modify events of the log for a path, by position.
AddOrModifyEvents(path) ==
    LET files == IterFilesLog(RunMetaSchema, log).files IN
    {i \in 1..Len(files) : files[i].path = path /\ files[i].event \in {"a", "m"}}

\* C19 as claimed: when stage_run has completed, each manifest entry carries
\* the type tag of the most recent add or modify event of the log for its path.
C19_ManifestTypeIsLatestEventType ==
    (pc = "staged" /\ Len(manifest_was) = 1) =>
        \A k \in 1..Len(manifest[1]) :
            LET files == IterFilesLog(RunMetaSchema, log).files
                events == AddOrModifyEvents(manifest[1][k].path)
            IN  \E i \in events :
                    /\ \A j \in events : j <= i
                    /\ manifest[1][k].type = files[i].type

\* A finalize_staged_run call has ended, with the staged timestamp written or
\* with an error.
FinalizeEnded ==
    \/ pc = "staged"
    \/ pc = "failed" /\ last_step.op \in {"finalize_open", "finalize_file", "write_staged"}

\* C20 as claimed: when a finalize_staged_run call that found a manifest has
\* ended, whether it succeeded or failed part-way, the manifest it found is a
\* prefix of the manifest it left.
C20_ManifestAppendOnly ==
    (FinalizeEnded /\ manifest_was[Len(manifest_was)] # None) =>
        IsPrefix(manifest_was[Len(manifest_was)][1], manifest[1])

PhaseOrder ==
    <<"stage-sourcecode", "apply-config", "stage-runtime", "stage-dependencies", "finalize">>

\* C21: the phases stage_run has started are, in order, an initial part of
\* stage-sourcecode, apply-config, stage-runtime, stage-dependencies,
\* finalize; a phase starts only while no error was raised and right after the
\* step that completes the phase before it (that phase's scan, or the
\* configuration step); a phase's scan is reached only after its hook, if it
\* has one, exited with code 0; and the staged timestamp exists only once the
\* manifest was written to its end.
C21_PhasesInOrder ==
    /\ [](IsPrefix(started, PhaseOrder))
    /\ [](\A phase \in HookPhases \cap MetaOpdef.hooks :
            (pc = ScanPc(phase) \/ (last_step.op = "scan" /\ last_step.type = ScanType(phase)))
                => \E i \in 1..Len(exits) : exits[i].phase = phase /\ exits[i].exit_code = 0)
    /\ [](("staged" \in MetaFiles) => (manifest # None /\ todo = <<>> /\ pc = "staged"))
    /\ [][started' # started =>
            /\ err = None
            /\ last_step.op \in {"none", "scan", "apply_config"}]_vars

\* stage_run completed with a hook in each of the three phases.
C21_Witness ==
    /\ pc = "staged"
    /\ started = PhaseOrder
    /\ MetaOpdef.hooks = HookPhases
    /\ Len(exits) = 3

\* The scan types of the phases that come before a phase.
EarlierScanTypes(phase) ==
    CASE phase = "stage-sourcecode" -> {}
      [] phase = "stage-runtime" -> {"s"}
      [] phase = "stage-dependencies" -> {"s", "r"}

FailedHooks(history) == {i \in 1..Len(history) : history[i].exit_code # 0}

C24_ReturnsIffExitZero ==
    /\ pc = "returned" => (child.exit_code = 0 /\ err = None)
    /\ pc = "raised" =>
          /\ child.exit_code # 0
          /\ err = Some([kind |-> "RunExecError",
                         phase_name |-> args.phase_name,
                         proc_args |-> child.proc_args,
                         exit_code |-> child.exit_code])
    /\ Len(exits) <= 1
    /\ (Len(exits) = 1) <=> (pc \in {"returned", "raised"})
    /\ Len(exits) = 1 => exits[1] = [phase |-> args.phase_name, exit_code |-> child.exit_code]

\* A hook given as one string with an interpreter line failed with code 2.
C24_Witness ==
    /\ pc = "raised"
    /\ child.exit_code = 2
    /\ args.exec_cmd.kind = "str"
    /\ child.proc_args.kind = "list"

\* C25: the capture is attached to the child before the executor waits for
\* it; the call ends only after the child has exited and the capture has read
\* all the child wrote and is closed; and every call ends, whatever amount of
\* output the hook writes, as the capture reads while the child runs.
C25_CaptureBeforeWaitAndNoDeadlock ==
    /\ [](pc \in {"wait", "close", "report", "returned", "raised"} => child.reader # "none")
    /\ [](pc \in {"returned", "raised"} =>
            /\ child.state = "exited"
            /\ child.reader = "closed"
            /\ child.pipe = 0
            /\ child.to_write = 0
            /\ metas[MetaDir][AttrFile("output", args.output_name)].content = child.captured)
    /\ (pc = "popen") ~> (pc \in {"returned", "raised"})

\* A call has ended for a hook that wrote more than the pipe holds.
C25_Witness ==
    /\ pc \in {"returned", "raised"}
    /\ child.captured = MaxOutput
    /\ child.captured > PipeCapacity

\* The position of the first line break of a text, or one past its end.
FirstBreak(s) ==
    IF \E i \in 1..Len(s) : s[i] \in LineBreakChars
    THEN CHOOSE i \in 1..Len(s) :
            s[i] \in LineBreakChars /\ \A j \in 1..(i - 1) : s[j] \notin LineBreakChars
    ELSE Len(s) + 1

\* The text after the first line and its line break, as it stands.
RestOfText(s) ==
    LET i == FirstBreak(s)
        j == IF i < Len(s) /\ s[i] = "\r" /\ s[i + 1] = "\n" THEN i + 2 ELSE i + 1
    IN  SubSeq(s, j, Len(s))

\* C26 as claimed: the child is started with a list as it was given, shell
\* off; for a string whose first line starts with "#!", shell off, with the
\* text after the marker as the interpreter and, as the last argument, the
\* rest of the string unaltered; with any other string as it was given, shell
\* on; and the resolution is defined for every non-empty hook value.
C26_ProcArgsAsClaimed ==
    /\ \A e \in ExecCmds : ProcArgs(e).ok
    /\ child.state # "none" =>
          LET e == args.exec_cmd IN
          IF e.kind = "list" THEN child.proc_args = e /\ ~child.shell
          ELSE IF StartsWith(e.text, <<"#", "!">>)
          THEN /\ ~child.shell
               /\ child.proc_args.kind = "list"
               /\ child.proc_args.items[1] = RStrip(SubSeq(e.text, 3, FirstBreak(e.text) - 1))
               /\ child.proc_args.items[Len(child.proc_args.items)] = RestOfText(e.text)
          ELSE child.proc_args = e /\ child.shell

\* The log cannot be read: the schema tag is not the supported one, or a line
\* does not decode.
Unreadable ==
    \/ RunMetaSchema # META_SCHEMA
    \/ \E i \in 1..Len(log) : ~DecodeFilesLogLine(RStrip(log[i])).ok

ScanPcs == {ScanPc(phase) : phase \in HookPhases}

\* C30: a scan attempted while the log cannot be read fails with a TypeError
\* and leaves the log as it was; once a read has failed the pipeline is
\* stopped: no phase starts, the log and the manifest stay as they are, and
\* there is no staged timestamp.
C30_FailedReadChangesNothing ==
    /\ [][(pc \in ScanPcs /\ Unreadable) =>
            (err' = Some([kind |-> "TypeError"]) /\ pc' = "failed" /\ log' = log)]_vars
    /\ [][(err = None /\ err' = Some([kind |-> "TypeError"])) =>
            (log' = log /\ run_files' = run_files /\ manifest' = manifest)]_vars
    /\ [](err = Some([kind |-> "TypeError"]) =>
            (pc = "failed" /\ manifest = None /\ "staged" \notin MetaFiles))
    /\ [][err # None =>
            (started' = started /\ log' = log /\ manifest' = manifest /\ metas' = metas)]_vars

\* A scan failed on a log whose schema tag is supported and whose line does
\* not decode.
C30_Witness ==
    /\ err = Some([kind |-> "TypeError"])
    /\ last_step.op = "scan_failed"
    /\ RunMetaSchema = META_SCHEMA
    /\ log # <<>>
    /\ Unreadable

\* C31 as claimed: in every state in which the manifest exists, finalize in
\* progress or failed included, every path of the folded log has an entry in
\* it, is a read-only file of the run directory and has the digest of its
\* bytes in that entry; and when the staged timestamp exists, all phases
\* were started in order and the manifest was written to its end before it.
C31_ManifestAlwaysDescribesFold ==
    /\ (manifest # None /\ RunMetaSchema = META_SCHEMA) =>
          \A path \in FoldedPaths :
              /\ ManifestEntriesFor(path) # {}
              /\ path \in DOMAIN run_files
              /\ run_files[path].readonly
              /\ \A i \in ManifestEntriesFor(path) :
                    manifest[1][i].digest = Digest(run_files[path].content)
    /\ ("staged" \in MetaFiles) =>
          /\ started = PhaseOrder
          /\ manifest # None
          /\ todo = <<>>

\* ------------------------------------------------------ fold of any log

ModifiedValues == {None} \cup {Some(m) : m \in 0..MaxMtime}

\* Any well-formed event is appended to the log.
FoldAppend ==
    /\ Len(log) < MaxFoldLen
    /\ \E event \in LoggedFileEvents, type \in LoggedFileTypes, path \in Paths :
          \E modified \in (IF event = "d" THEN {None} ELSE {Some(MaxMtime)}) :
              log' = Append(log, EncodeLoggedFile(LoggedFile(event, type, modified, path)))
    /\ fold_out' = None
    /\ UNCHANGED <<tsvars, metavars, listvars, stagevars>>

\* run_util.py:437-445: the log is folded; the log itself is only read.
FoldRun ==
    /\ fold_out' = Some(ReduceFilesLog(META_SCHEMA, log))
    /\ UNCHANGED log
    /\ UNCHANGED <<tsvars, metavars, listvars, stagevars>>

InitFold == TsFresh /\ FoldFresh /\ RootFresh /\ StageFresh

NextFold == FoldAppend \/ FoldRun

SpecFold == InitFold /\ [][NextFold]_vars

DeleteLines(path) ==
    {EncodeLoggedFile(LoggedFile("d", type, None, path)) : type \in LoggedFileTypes}

\* C7: the fold is a function of the log alone: folding again while the log is
\* unchanged gives the same items; and whenever the last line of the log is a
\* delete event for a path, the fold does not contain that path, whatever add
\* and modify events for it came before.
C7_FoldPureDeleteWins ==
    /\ [][(fold_out # None /\ fold_out' # None /\ log' = log) => fold_out' = fold_out]_vars
    /\ [](\A path \in Paths :
            (fold_out # None /\ log # <<>> /\ log[Len(log)] \in DeleteLines(path))
                => path \notin DictKeys(fold_out[1]))

\* A log with an add and a modify of a path followed by its delete, folded.
C7_Witness ==
    /\ Len(log) = 3
    /\ log[1] = EncodeLoggedFile(LoggedFile("a", "s", Some(MaxMtime), <<"x">>))
    /\ log[2] = EncodeLoggedFile(LoggedFile("m", "r", Some(MaxMtime), <<"x">>))
    /\ log[3] \in DeleteLines(<<"x">>)
    /\ fold_out = Some(<<>>)

\* ------------------------------------------------ writes and reads of a log

\* Lines found in a log that no scan wrote: three fields only, an unknown
\* event code, an unknown type code, a timestamp that is no integer.
ForeignLines ==
    {<<"a", " ", "s", " ", "1", "\n">>,
     <<"q", " ", "s", " ", "1", " ", "x", "\n">>,
     <<"a", " ", "q", " ", "1", " ", "x", "\n">>,
     <<"a", " ", "s", " ", "z", " ", "x", "\n">>}

\* run_util.py:520, 524: one event is encoded and written to the log.
WriteLoggedFile ==
    /\ Len(log) < MaxReadLen
    /\ \E event \in LoggedFileEvents, type \in LoggedFileTypes,
          modified \in ModifiedValues, path \in Paths :
            LET file == LoggedFile(event, type, modified, path) IN
            /\ log' = Append(log, EncodeLoggedFile(file))
            /\ fold_out' = Some([op |-> "write", file |-> file])
    /\ UNCHANGED <<tsvars, metavars, listvars, stagevars>>

\* The log on disk gains a line that is no encoded event.
ForeignWrite ==
    /\ Len(log) < MaxReadLen
    /\ \E line \in ForeignLines : log' = Append(log, line)
    /\ fold_out' = Some([op |-> "foreign"])
    /\ UNCHANGED <<tsvars, metavars, listvars, stagevars>>

\* run_util.py:554-572: the log is read to its end or to the first bad line.
ReadFilesLog ==
    /\ fold_out' = Some([op |-> "read", result |-> IterFilesLog(META_SCHEMA, log)])
    /\ UNCHANGED log
    /\ UNCHANGED <<tsvars, metavars, listvars, stagevars>>

InitRead == TsFresh /\ FoldFresh /\ RootFresh /\ StageFresh

NextRead == WriteLoggedFile \/ ForeignWrite \/ ReadFilesLog

SpecRead == InitRead /\ [][NextRead]_vars

BadLineNumbers == {i \in 1..Len(log) : ~DecodeFilesLogLine(RStrip(log[i])).ok}

FirstBadLine == CHOOSE i \in BadLineNumbers : \A j \in BadLineNumbers : i <= j

\* C27 as claimed: a read of a log that holds a malformed line fails; the
\* error carries the 1-based number of the first such line; and the lines
\* before it were decoded as the events they encode.
C27_DecodeErrorNamesLine ==
    (fold_out # None /\ fold_out[1].op = "read" /\ BadLineNumbers # {}) =>
        LET result == fold_out[1].result IN
        /\ ~result.ok
        /\ Len(result.files) = FirstBadLine - 1
        /\ \A i \in 1..Len(result.files) :
              result.files[i] = DecodeFilesLogLine(RStrip(log[i])).file
        /\ \E i \in 1..Len(result.message.values) :
              result.message.values[i] = IntStr(FirstBadLine)

\* C28 as claimed: the line written for an event, with any event code, type
\* code, modification time (absent, 0 or more) and path, decodes to that event.
C28_LineRoundTrips ==
    (fold_out # None /\ fold_out[1].op = "write") =>
        DecodeFilesLogLine(RStrip(log[Len(log)])) = [ok |-> TRUE, file |-> fold_out[1].file]

====
